---- MODULE Spec2Model ----
(***************************************************************************)
(* The worker execution core of zmon-worker                                *)
(* (src/zmon_worker_monitor/workflow.py): the consumer loop                *)
(* flow_simple_queue_processor / process_message running in the main       *)
(* thread, and the FlowControlReactor whose action_loop runs in a second   *)
(* thread of the same process.                                             *)
(*                                                                         *)
(* Time is a discrete clock `now`; one step of the clock is one sleep of   *)
(* the reactor loop (t_wait).  The other periods of the program (ping,     *)
(* events, sampling refresh) are far longer than a tick in the source and  *)
(* are scaled down to a few ticks here; only their order of magnitude      *)
(* relative to a tick is lost.                                             *)
(*                                                                         *)
(* Python's dict and list operations are atomic under the interpreter      *)
(* lock, and the ping accumulator and the event list are only touched      *)
(* inside `with self._ping_lock` / `with self._event_lock`, so each such   *)
(* access is one step.  Statements of one thread that touch no shared      *)
(* state are folded into the neighbouring step of that thread.             *)
(***************************************************************************)
EXTENDS Integers, Sequences, FiniteSets, TLC

(***************************************************************************)
(* Bounds of the model.                                                    *)
(***************************************************************************)
\* the clock stops here
MaxTime == 2
\* number of messages the producers push in a run
MaxMessages == 2
\* length the broker list may reach
MaxQueue == 2
\* datetime.now() - datetime.utcnow(), in ticks
LocalOffset == 1
\* number of add_event calls made from outside the reactor between two drains
MaxCalls == 3
\* calls of get_instance() and FlowControlReactor() made from outside
\* start_worker_for_queue
MaxLifeCalls == 3
\* number of plugin manifests in the scanned directories
MaxManifests == 2
\* number of collect_plugins calls
MaxCollects == 2
\* number of lookups made on the plugin registry
MaxLookups == 2

(***************************************************************************)
(* Program constants.  The periods are counted in ticks and scaled down:   *)
(* the source has 5000 events, 30 s, 60 s and 60 s against a tick of 0.2 s.*)
(***************************************************************************)
\* FlowControlReactor._max_keep_events
max_keep_events == 2
\* FlowControlReactor.ping_timedelta
ping_timedelta == 2
\* FlowControlReactor.events_timedelta
events_timedelta == 1
\* the default of zmon.sampling.update.rate
SAMPLING_RATE_UPDATE_DURATION == 1
\* FlowControlReactor.t_wait: the reactor's sleep, which is the unit of the clock
t_wait == 1
\* seconds in a day: timedelta.seconds is the seconds part of a timedelta
SecondsPerDay == 86400

None == << >>
\* history of the plugin manager before any collect
NoPluginLog == [collects |-> 0, error |-> << >>, instantiated |-> << >>,
                configured |-> << >>, ops |-> << >>, before |-> << >>,
                global_config |-> << >>]
\* history of the registry lookups before any lookup
NoLookups == [count |-> 0, last |-> << >>, seen |-> {}]

Threads == {"MainThread"}
known_tasks == {"check_and_notify", "trial_run", "cleanup"}

VARIABLES
    now,                          \* time.time() / datetime.utcnow()
    queue,                        \* the broker list
    config,                       \* get_config(): fixed for the process
    pc,                           \* where the main thread is
    msg_obj,                      \* the message being processed
    popped,                       \* number of messages popped so far
    sampling_config,
    sampling_rate_last_updated,
    expired_count,
    count,
    exit_code,
    current_task_by_thread,       \* FlowControlReactor._current_task_by_thread
    ping_data,                    \* _ping_data: tasks_done, task_duration
    ping_idle_points,             \* _ping_idle_points: <<idle, total>>
    t_last_ping,
    num_ping_sent,
    event_list,
    t_last_events,
    action_on,
    r_pc,                         \* where the reactor thread is
    wake_at,                      \* end of the reactor's current sleep
    hk_th,                        \* action_hard_kill: th_name of the entry in hand
    rpc_log,                      \* what the parent's RPC server was asked
    hist,                         \* history: what happened to each message
    w_pc,                         \* where start_worker_for_queue is
    flow,                         \* its flow argument
    cls,                          \* FlowControlReactor._can_init, ._instance
    constructed,                  \* number of FlowControlReactor objects built
    life_log,                     \* history: the calls made on the class
    plugin_dirs,                  \* the plugin manifests on disk, in scan order
    category_filter,              \* plugin manager: None, or <<the categories>>
    collected,                    \* plugin manager: the one-shot flag of collect
    registry,                     \* plugin manager: the descriptors, in order
    plug_log,                     \* history: what the collects did
    lookup_log,                   \* history: what the lookups returned
    pp,                           \* a ProtectedPartial object, or None
    call_log                      \* history: how the wrapped function was called

mainVars == <<pc, msg_obj, popped, sampling_config, sampling_rate_last_updated,
              expired_count, count, exit_code>>
reactorVars == <<current_task_by_thread, ping_data, ping_idle_points, t_last_ping,
                 num_ping_sent, event_list, t_last_events, action_on>>
threadVars == <<r_pc, wake_at, hk_th>>
lifeVars == <<w_pc, flow, cls, constructed, life_log>>
pluginVars == <<plugin_dirs, category_filter, collected, registry, plug_log,
               lookup_log>>
adapterVars == <<pp, call_log>>
vars == <<now, queue, config, mainVars, reactorVars, threadVars, rpc_log, hist,
          lifeVars, pluginVars, adapterVars>>

(***************************************************************************)
(* Messages.  A queue element is a frame (raw JSON or a legacy             *)
(* snappy-compressed frame) holding an envelope: properties.body_encoding  *)
(* and a body.  A body is the Task Record under a stack of transport       *)
(* layers, outermost first.                                                *)
(***************************************************************************)
Json(rec) == [layers |-> <<"json">>, rec |-> rec]
B64Encode(b) == [b EXCEPT !.layers = <<"b64">> \o @]
SnappyCompress(b) == [b EXCEPT !.layers = <<"snappy">> \o @]

DecodeFailure == [layers |-> <<"error">>, rec |-> None]
Strip(b, layer) ==
    IF b.layers # << >> /\ Head(b.layers) = layer
    THEN [b EXCEPT !.layers = Tail(@)]
    ELSE DecodeFailure
B64Decode(b) == Strip(b, "b64")
\* a decompression that hands its input back
SnappyDecompressKeeps(b) == b
SnappyDecompress(b) == Strip(b, "snappy")
JsonLoads(b) == IF b.layers = <<"json">> THEN [layers |-> << >>, rec |-> b.rec]
                ELSE DecodeFailure

\* the body a producer writes for the decoder of process_message
EncodeBody(enc, rec) ==
    CASE enc = "nested" -> [layers |-> << >>, rec |-> rec]
      [] enc = "base64" -> B64Encode(Json(rec))
      [] enc = "snappy" -> B64Encode(SnappyCompress(Json(rec)))
      [] OTHER -> B64Encode(Json(rec))

\* a decoder that takes an encoding it does not know for base64
DecodeBodyLenient(enc, body) ==
    CASE enc = "nested" -> IF body.layers = << >> THEN body ELSE DecodeFailure
      [] enc = "base64" -> JsonLoads(B64Decode(body))
      [] enc = "snappy" -> JsonLoads(SnappyDecompress(B64Decode(body)))
      [] OTHER -> JsonLoads(B64Decode(body))
\* process_message, lines 272-279: msg_body, or DecodeFailure where the code raises
DecodeBody(enc, body) ==
    CASE enc = "nested" -> IF body.layers = << >> THEN body ELSE DecodeFailure
      [] enc = "base64" -> JsonLoads(B64Decode(body))
      [] enc = "snappy" -> JsonLoads(SnappyDecompress(B64Decode(body)))
      [] OTHER -> DecodeFailure

\* flow_simple_queue_processor, lines 192-195: does the raw payload parse
FrameDecodes(frame) == frame \in {"json", "snappy"}

\* expires is None or <<naive timestamp, timezone suffix>>;
\* lines 306-308 drop a 'Z' and everything from the last '+' and parse the rest
ParseExpires(expires) == expires[1]

CurTime(utc) == IF utc THEN now ELSE now + LocalOffset
\* a gate that lets a task through at the very instant it expires
IsExpiredOffByOne(rec) ==
    CurTime(rec.utc) > (IF rec.expires # None THEN rec.expires[1]
                        ELSE CurTime(rec.utc) + 10)
ExpireTime(rec) ==
    IF rec.expires # None THEN ParseExpires(rec.expires)
    ELSE CurTime(rec.utc) + 10
IsExpired(rec) == CurTime(rec.utc) >= ExpireTime(rec)

TaskRecord(task, expires, utc, timelimit) ==
    [task |-> task, expires |-> expires, utc |-> utc, timelimit |-> timelimit]
Message(frame, enc, rec) ==
    [frame |-> frame, body_encoding |-> enc, body |-> EncodeBody(enc, rec)]

(***************************************************************************)
(* Sampling config.  A config is a dict: a function from keys to values.   *)
(***************************************************************************)
Raised == [raised |-> TRUE]

\* dict.update
DictUpdate(d, e) ==
    [k \in DOMAIN d \cup DOMAIN e |-> IF k \in DOMAIN e THEN e[k] ELSE d[k]]

\* what the entity endpoint may answer: an entity, or a failure of the GET
Entities == { [default_sampling |-> 50, worker_sampling |-> 60],
              [worker_sampling |-> 0] }
HttpFailure == [http_failure |-> TRUE]
HttpOutcomes == Entities \cup {HttpFailure}

\* lines 66-74: the defaults read from the config vars
DefaultSamplingConfig == [default_sampling |-> 100, critical_checks |-> 13]

\* get_sampling_rate_config(config, span) when the GET ends as `http`
get_sampling_rate_config(http) ==
    IF ~config.vars_ok THEN Raised
    ELSE IF ~config.zmon_url THEN DefaultSamplingConfig
    ELSE IF http = HttpFailure THEN DefaultSamplingConfig
    ELSE DictUpdate(DefaultSamplingConfig, http)

\* how a refresh attempt ended
RefreshOutcome(http) ==
    IF ~config.vars_ok THEN "raised"
    ELSE IF ~config.zmon_url THEN "no_entity"
    ELSE IF http = HttpFailure THEN "http_failed"
    ELSE "loaded"

\* timedelta.seconds of a non-negative timedelta of d seconds
Seconds(d) == d % SecondsPerDay

sampling_update_rate == SAMPLING_RATE_UPDATE_DURATION

\* a refresh that is due as soon as the period is reached
RefreshDueEarly ==
    \/ sampling_config = None
    \/ (now - sampling_rate_last_updated) % SecondsPerDay >= SAMPLING_RATE_UPDATE_DURATION
\* line 204-205
RefreshDue ==
    \/ sampling_config = None
    \/ Seconds(now - sampling_rate_last_updated) > sampling_update_rate

(***************************************************************************)
(* The reactor's state and methods.                                        *)
(***************************************************************************)
ping_template == [tasks_done |-> 0, task_duration |-> 0]

Event(origin, type, body, repeats) ==
    [origin |-> origin, type |-> type, body |-> body, repeats |-> repeats,
     timestamp |-> now]

\* a truncation that keeps the head of the list
add_eventKeepsOldest(list, origin, type, body, repeats) ==
    LET l == Append(list, [origin |-> origin, type |-> type, body |-> body,
                           repeats |-> repeats, timestamp |-> now])
    IN  IF Len(l) > max_keep_events THEN SubSeq(l, 1, max_keep_events) ELSE l
\* add_event: the list after the append and the truncation
add_event(list, origin, type, body, repeats) ==
    LET l == Append(list, Event(origin, type, body, repeats))
    IN  IF Len(l) > max_keep_events
        THEN SubSeq(l, Len(l) - max_keep_events + 1, Len(l))
        ELSE l

\* a pop that leaves the key in place
DictPopKeeps(d, key) == d
\* dict.pop(key, default): the dict without the key
DictPop(d, key) == [k \in DOMAIN d \ {key} |-> d[k]]

\* task_received: the map with this thread's entry set
task_received(th, taskname, t_hard, t_soft) ==
    [k \in DOMAIN current_task_by_thread \cup {th} |->
        IF k = th
        THEN [taskname |-> taskname, t_hard |-> t_hard, t_soft |-> t_soft,
              ts |-> now, id |-> popped]
        ELSE current_task_by_thread[k]]

\* a duration counted from the start of the clock when the pop found no entry
DurationSinceEpoch(task_detail) ==
    IF task_detail = None THEN now ELSE now - task_detail.ts
\* lines 505-506: what task_ended adds to task_duration for the tuple its pop
\* returned, () when the thread had no entry
Duration(task_detail) ==
    IF task_detail = None THEN 0 ELSE now - task_detail.ts

\* a task_ended that counts the task as done whether or not it raised
task_endedCountsAll(th, exc) ==
    [tasks |-> [k \in DOMAIN current_task_by_thread \ {th} |-> current_task_by_thread[k]],
     ping |-> [tasks_done |-> ping_data.tasks_done + 1,
               task_duration |-> ping_data.task_duration],
     events |-> IF exc = None THEN event_list
                ELSE Append(event_list,
                       [origin |-> "FlowControlReactor.task_ended", type |-> "ERROR",
                        body |-> exc, repeats |-> 1, timestamp |-> now])]
\* task_ended(exc), called in thread th: the running-task map, the ping
\* accumulator and the event list afterwards; exc is None or a traceback
task_ended(th, exc) ==
    [tasks |-> DictPop(current_task_by_thread, th),
     ping |-> IF exc = None
              THEN [tasks_done |-> ping_data.tasks_done + 1,
                    task_duration |-> ping_data.task_duration +
                       Duration(IF th \in DOMAIN current_task_by_thread
                                THEN current_task_by_thread[th] ELSE None)]
              ELSE ping_data,
     events |-> IF exc = None
                THEN event_list
                ELSE add_event(event_list, "FlowControlReactor.task_ended",
                               "ERROR", exc, 1)]

HardKillBody(e) == <<"Hard kill request received", e.taskname, ToString(e.t_hard)>>
Traceback(kind) == <<"Traceback (most recent call last)", kind>>

(***************************************************************************)
(* The main thread: flow_simple_queue_processor and process_message.       *)
(***************************************************************************)
Main == "MainThread"

\* msg_body['task'] of the message in hand
TaskName == DecodeBody(msg_obj.body_encoding, msg_obj.body).rec.task

SetResult(tag) == [hist EXCEPT !.result[popped] = tag]

Last(list) == list[Len(list)]
\* history: every event appended since the last drain of the event list
NoteAppend(e) == [hist EXCEPT !.appended = Append(@, e)]

\* a pop that pushes the message back at the end of the list
AfterPopRequeue(list) == Append(Tail(list), Head(list))
\* blpop: what is left of the list
AfterPop(list) == Tail(list)

\* a pop from the other end of the list
BlPopNewest(list) == list[Len(list)]
\* blpop: the message popped, the oldest of the list
BlPop(list) == Head(list)

\* lines 181-195: blpop and the parse of the raw payload
PopMessage ==
    /\ pc = "pop"
    /\ queue # << >>
    /\ queue' = AfterPop(queue)
    /\ popped' = popped + 1
    /\ msg_obj' = BlPop(queue)
    /\ pc' = IF FrameDecodes(BlPop(queue).frame) THEN "sampling" ELSE "backoff"
    /\ UNCHANGED <<now, config, adapterVars, pluginVars, lifeVars, sampling_config, sampling_rate_last_updated,
                   expired_count, count, exit_code, reactorVars, threadVars,
                   rpc_log, hist>>

\* lines 233-243: the outer handler, which sleeps and loops; the message in
\* hand, if the exception came from its payload, is lost
Backoff ==
    /\ pc = "backoff"
    /\ pc' = "pop"
    /\ hist' = IF popped > 0 /\ hist.result[popped] = "none"
               THEN SetResult("loop_error") ELSE hist
    /\ UNCHANGED <<now, queue, config, adapterVars, pluginVars, lifeVars, msg_obj, popped, sampling_config,
                   sampling_rate_last_updated, expired_count, count, exit_code,
                   reactorVars, threadVars, rpc_log>>

\* a refresh without the inner try/except: a raise of the refresh reaches the
\* outer handler of the loop
RefreshSamplingUnguarded ==
    /\ pc = "sampling"
    /\ IF RefreshDue
       THEN \E http \in HttpOutcomes :
              LET r == get_sampling_rate_config(http)
              IN  /\ sampling_rate_last_updated' = now
                  /\ sampling_config' = IF r = Raised THEN sampling_config ELSE r
                  /\ pc' = IF r = Raised THEN "backoff" ELSE "process"
                  /\ hist' = [hist EXCEPT !.refresh = RefreshOutcome(http),
                                          !.attempts = @ + 1]
       ELSE /\ UNCHANGED <<sampling_config, sampling_rate_last_updated>>
            /\ pc' = "process"
            /\ hist' = [hist EXCEPT !.refresh = "not_due"]
    /\ UNCHANGED <<now, queue, config, adapterVars, pluginVars, lifeVars, msg_obj, popped, expired_count, count,
                   exit_code, reactorVars, threadVars, rpc_log>>

\* lines 204-213: the refresh of the sampling config
RefreshSampling ==
    /\ pc = "sampling"
    /\ pc' = "process"
    /\ IF RefreshDue
       THEN \E http \in HttpOutcomes :
              LET r == get_sampling_rate_config(http)
              IN  /\ sampling_rate_last_updated' = now
                  /\ sampling_config' = IF r = Raised THEN sampling_config ELSE r
                  /\ hist' = [hist EXCEPT !.refresh = RefreshOutcome(http),
                                          !.attempts = @ + 1]
       ELSE /\ UNCHANGED <<sampling_config, sampling_rate_last_updated>>
            /\ hist' = [hist EXCEPT !.refresh = "not_due"]
    /\ UNCHANGED <<now, queue, config, adapterVars, pluginVars, lifeVars, msg_obj, popped, expired_count, count,
                   exit_code, reactorVars, threadVars, rpc_log>>

\* a lookup that falls back on a handler for a name it does not know
HandlerFoundAlways(taskname) == TRUE
\* line 324, known_tasks[taskname]: the lookup finds a handler; it raises
\* KeyError otherwise
HandlerFound(taskname) == taskname \in known_tasks

\* process_message up to the handler call, lines 272-324
ProcessMessage ==
    /\ pc = "process"
    /\ LET body == DecodeBody(msg_obj.body_encoding, msg_obj.body)
           rec == body.rec
       IN  IF body = DecodeFailure \/ rec.timelimit = None
           THEN \* msg_body['task'] or the unpacking of timelimit raises
                /\ pc' = "pop"
                /\ count' = count + 1
                /\ hist' = SetResult("error")
                /\ UNCHANGED <<expired_count, current_task_by_thread>>
           ELSE IF IsExpired(rec)
           THEN /\ pc' = "pop"
                /\ count' = count + 1
                /\ expired_count' = expired_count + 1
                /\ hist' = SetResult("expired")
                /\ UNCHANGED current_task_by_thread
           ELSE /\ pc' = "running"
                /\ current_task_by_thread' =
                     task_received(Main, rec.task, rec.timelimit[1], rec.timelimit[2])
                /\ hist' = [hist EXCEPT
                     !.received = @ + 1,
                     !.killed = FALSE,
                     !.t_start = now,
                     !.passed = sampling_config,
                     !.handler_calls[popped] =
                        IF HandlerFound(rec.task) THEN @ + 1 ELSE @]
                /\ UNCHANGED <<count, expired_count>>
    /\ UNCHANGED <<now, queue, config, adapterVars, pluginVars, lifeVars, msg_obj, popped, sampling_config,
                   sampling_rate_last_updated, exit_code, ping_data,
                   ping_idle_points, t_last_ping, num_ping_sent, event_list,
                   t_last_events, action_on, threadVars, rpc_log>>

\* the handler returns: task_ended(), 'success', count += 1
HandlerReturns ==
    /\ pc = "running"
    /\ HandlerFound(TaskName)
    /\ LET after == task_ended(Main, None)
       IN  /\ current_task_by_thread' = after.tasks
           /\ ping_data' = after.ping
           /\ event_list' = after.events
    /\ pc' = "pop"
    /\ count' = count + 1
    /\ hist' = [SetResult("success") EXCEPT !.ended = @ + 1]
    /\ UNCHANGED <<now, queue, config, adapterVars, pluginVars, lifeVars, msg_obj, popped, sampling_config,
                   sampling_rate_last_updated, expired_count, exit_code,
                   ping_idle_points, t_last_ping, num_ping_sent,
                   t_last_events, action_on, threadVars, rpc_log>>

\* the handler (or the lookup of an unknown task name) raises an Exception:
\* task_ended(exc), the exception is re-raised and caught at line 226
HandlerRaises ==
    /\ pc = "running"
    /\ LET after == task_ended(Main,
              Traceback(IF HandlerFound(TaskName) THEN "Exception" ELSE "KeyError"))
       IN  /\ current_task_by_thread' = after.tasks
           /\ ping_data' = after.ping
           /\ event_list' = after.events
    /\ pc' = "pop"
    /\ count' = count + 1
    /\ hist' = [SetResult("error") EXCEPT !.ended = @ + 1,
                    !.appended = Append(@, Event("FlowControlReactor.task_ended",
                                                 "ERROR", Traceback(IF HandlerFound(TaskName)
                                                    THEN "Exception" ELSE "KeyError"), 1))]
    /\ UNCHANGED <<now, queue, config, adapterVars, pluginVars, lifeVars, msg_obj, popped, sampling_config,
                   sampling_rate_last_updated, expired_count, exit_code,
                   ping_idle_points, t_last_ping, num_ping_sent, t_last_events,
                   action_on, threadVars, rpc_log>>

\* the handler is left by KeyboardInterrupt or SystemExit: neither branch of
\* enter_task_context runs, no handler of the loop catches it, and
\* start_worker_for_queue (lines 535-542) stops the reactor and exits with 0
HandlerInterrupted ==
    /\ pc = "running"
    /\ HandlerFound(TaskName)
    /\ pc' = "exited"
    /\ action_on' = FALSE
    /\ exit_code' = 0
    /\ hist' = SetResult("interrupted")
    /\ w_pc' = "exited"
    /\ life_log' = [life_log EXCEPT !.flow_exc = "KeyboardInterrupt", !.stops = @ + 1]
    /\ UNCHANGED <<now, queue, config, adapterVars, pluginVars, flow, cls, constructed, msg_obj, popped, sampling_config,
                   sampling_rate_last_updated, expired_count, count,
                   current_task_by_thread, ping_data, ping_idle_points, t_last_ping,
                   num_ping_sent, event_list, t_last_events, threadVars, rpc_log>>

(***************************************************************************)
(* The reactor thread: action_loop and its three actions.                  *)
(***************************************************************************)
\* a loop that does not look at the flag
LoopGoesOnAlways(flag) == TRUE
\* line 477, `while self.action_on`: the loop starts another tick
LoopGoesOn(flag) == flag

\* while self.action_on, after time.sleep(self.t_wait)
ReactorWake ==
    /\ r_pc = "sleep"
    /\ now >= wake_at
    /\ r_pc' = IF LoopGoesOn(action_on) THEN "hard_kill" ELSE "done"
    /\ UNCHANGED <<now, queue, config, adapterVars, pluginVars, lifeVars, mainVars, reactorVars, wake_at, hk_th,
                   rpc_log, hist>>

\* a deadline check that fires at the deadline itself
OverdueAtDeadline(e) == now >= e.ts + e.t_hard
\* line 410, on an entry of the snapshot
Overdue(e) == now > e.ts + e.t_hard

\* action_hard_kill, lines 409-415: snapshot, deadline check and ACTION event;
\* the RPC of line 416 is the next step of the thread.  Only the main thread
\* registers tasks, so the snapshot holds at most one entry and the loop has
\* at most one round.
ActionHardKill ==
    /\ r_pc = "hard_kill"
    /\ LET snap == current_task_by_thread
           late == {th \in DOMAIN snap : Overdue(snap[th])}
       IN  IF late = {}
           THEN /\ r_pc' = "send_ping"
                /\ UNCHANGED <<event_list, hk_th, rpc_log, hist>>
           ELSE \E th \in late :
                /\ event_list' = add_event(event_list,
                      "FlowControlReactor.action_hard_kill", "ACTION",
                      HardKillBody(snap[th]), 1)
                /\ hk_th' = [th |-> th, id |-> snap[th].id]
                /\ UNCHANGED rpc_log
                /\ hist' = NoteAppend(Event("FlowControlReactor.action_hard_kill",
                                             "ACTION", HardKillBody(snap[th]), 1))
                /\ r_pc' = "hk_rpc"
    /\ UNCHANGED <<now, queue, config, adapterVars, pluginVars, lifeVars, mainVars, current_task_by_thread, ping_data,
                   ping_idle_points, t_last_ping, num_ping_sent, t_last_events,
                   action_on, wake_at>>

\* lines 416-417: mark_for_termination is called and returns
HardKillRpcReturns ==
    /\ r_pc = "hk_rpc"
    /\ current_task_by_thread' = DictPop(current_task_by_thread, hk_th.th)
    /\ rpc_log' = [rpc_log EXCEPT !.mark_for_termination[hk_th.id] = @ + 1,
                                  !.marked[hk_th.id] = @ + 1]
    /\ hist' = [hist EXCEPT !.killed = @ \/ hk_th.th \in DOMAIN current_task_by_thread]
    /\ r_pc' = "send_ping"
    /\ UNCHANGED <<now, queue, config, adapterVars, pluginVars, lifeVars, mainVars, ping_data, ping_idle_points,
                   t_last_ping, num_ping_sent, event_list, t_last_events, action_on,
                   wake_at, hk_th>>

\* an action_loop without its try/except: the raise ends the reactor thread
HardKillRpcRaisesStops ==
    /\ r_pc = "hk_rpc"
    /\ rpc_log' = [rpc_log EXCEPT !.mark_for_termination[hk_th.id] = @ + 1]
    /\ r_pc' = "done"
    /\ UNCHANGED <<now, queue, config, adapterVars, pluginVars, lifeVars, mainVars, current_task_by_thread, ping_data,
                   ping_idle_points, t_last_ping, num_ping_sent, event_list,
                   t_last_events, action_on, wake_at, hk_th, hist>>

\* mark_for_termination is called and raises: line 417 is skipped, action_loop
\* (lines 481-483) buffers an ERROR event and goes on with the next action
HardKillRpcRaises ==
    /\ r_pc = "hk_rpc"
    /\ event_list' = add_event(event_list, "FlowControlReactor.action_loop", "ERROR",
                               Traceback("mark_for_termination"), 1)
    /\ hist' = NoteAppend(Event("FlowControlReactor.action_loop", "ERROR",
                                Traceback("mark_for_termination"), 1))
    /\ rpc_log' = [rpc_log EXCEPT !.mark_for_termination[hk_th.id] = @ + 1]
    /\ r_pc' = "send_ping"
    /\ UNCHANGED <<now, queue, config, adapterVars, pluginVars, lifeVars, mainVars, current_task_by_thread, ping_data,
                   ping_idle_points, t_last_ping, num_ping_sent, t_last_events,
                   action_on, wake_at, hk_th>>

\* a quotient that is not rounded: <<numerator, denominator>>
Fraction(num, den) == <<num, den>>

\* line 433: (idle * 100.0) / total if total > 0 else 0
PercentIdle(idle, total) ==
    IF total > 0 THEN Fraction(idle * 100, total) ELSE Fraction(0, 1)

\* line 431-433: the data of a ping
PingData(data, idle, total) ==
    [tasks_done |-> data.tasks_done, task_duration |-> data.task_duration,
     timestamp |-> now, timedelta |-> now - t_last_ping,
     percent_idle |-> PercentIdle(idle, total)]

\* a guard that lets the first flush through to the RPC
WarmedUpAlways(n) == TRUE
\* line 436: the flush is not the first one
WarmedUp(n) == n >= 0

\* the tasks that have returned so far
Successes == Cardinality({i \in 1..MaxMessages : hist.result[i] = "success"})
\* history: one more ping flush, at this number of returned tasks
NoteFlush(h) == [h EXCEPT !.flushes = @ + 1, !.success_at_flush = Successes,
                          !.flushed_points = ping_idle_points]

\* a count that takes every tick for an idle one
IdlePointsAlwaysIdle(points, tasks) == <<points[1] + 1, points[2] + 1>>
\* lines 444-445: [num_idle_points, num_total_points] after a tick on which
\* the running-task map is `tasks`
IdlePoints(points, tasks) ==
    <<points[1] + (IF DOMAIN tasks = {} THEN 1 ELSE 0), points[2] + 1>>

\* a swap that hands the accumulator in use back as the new one
NewPingDataShared(data) == data
\* lines 426-427, under _ping_lock: the accumulator that replaces `data`, a
\* deep copy of the template
NewPingData(data) == ping_template

\* a bookkeeping that takes a ping that raised for a ping that was sent
PingBookkeepingAlways(raised) ==
    [num_ping_sent |-> num_ping_sent + 1, t_last_ping |-> now]
\* lines 439-440: _num_ping_sent and _t_last_ping after the flush; a raise of
\* line 437 skips both assignments
PingBookkeeping(raised) ==
    IF raised
    THEN [num_ping_sent |-> num_ping_sent, t_last_ping |-> t_last_ping]
    ELSE [num_ping_sent |-> num_ping_sent + 1, t_last_ping |-> now]

\* action_send_ping
ActionSendPing ==
    /\ r_pc = "send_ping"
    /\ r_pc' = "send_events"
    /\ IF now - t_last_ping >= ping_timedelta
       THEN /\ ping_data' = NewPingData(ping_data)
            /\ ping_idle_points' = <<0, 0>>
            /\ IF WarmedUp(num_ping_sent)
               THEN \/ /\ rpc_log' = [rpc_log EXCEPT
                            !.ping = PingData(ping_data, ping_idle_points[1],
                                              ping_idle_points[2]),
                            !.pings = @ + 1,
                            !.ping_calls = @ + 1,
                            !.tasks_reported = @ + ping_data.tasks_done]
                       /\ num_ping_sent' = PingBookkeeping(FALSE).num_ping_sent
                       /\ t_last_ping' = PingBookkeeping(FALSE).t_last_ping
                       /\ hist' = NoteFlush(hist)
                       /\ UNCHANGED event_list
                    \/ \* ping raises: lines 439-440 are skipped
                       /\ event_list' = add_event(event_list,
                             "FlowControlReactor.action_loop", "ERROR",
                             Traceback("ping"), 1)
                       /\ hist' = NoteFlush(
                             NoteAppend(Event("FlowControlReactor.action_loop",
                                              "ERROR", Traceback("ping"), 1)))
                       /\ rpc_log' = [rpc_log EXCEPT
                            !.ping = PingData(ping_data, ping_idle_points[1],
                                              ping_idle_points[2]),
                            !.ping_calls = @ + 1,
                            !.tasks_reported = @ + ping_data.tasks_done]
                       /\ num_ping_sent' = PingBookkeeping(TRUE).num_ping_sent
                       /\ t_last_ping' = PingBookkeeping(TRUE).t_last_ping
               ELSE /\ num_ping_sent' = PingBookkeeping(FALSE).num_ping_sent
                    /\ t_last_ping' = PingBookkeeping(FALSE).t_last_ping
                    /\ hist' = NoteFlush(hist)
                    /\ UNCHANGED <<rpc_log, event_list>>
       ELSE /\ ping_idle_points' = IdlePoints(ping_idle_points, current_task_by_thread)
            /\ UNCHANGED <<ping_data, num_ping_sent, t_last_ping, rpc_log,
                           event_list, hist>>
    /\ UNCHANGED <<now, queue, config, adapterVars, pluginVars, lifeVars, mainVars, current_task_by_thread,
                   t_last_events, action_on, wake_at, hk_th>>

Key(e) == <<e.origin, e.type, e.body>>
\* a collapse that drops the repeats of the duplicates
RECURSIVE EventDictNoSum(_, _, _)
EventDictNoSum(events, i, d) ==
    IF i = 0 THEN d
    ELSE IF Key(events[i]) \in DOMAIN d
         THEN EventDictNoSum(events, i - 1, d)
         ELSE EventDictNoSum(events, i - 1, (Key(events[i]) :> events[i]) @@ d)
\* lines 455-462: the dict built from the drained events, newest first
RECURSIVE EventDict(_, _, _)
EventDict(events, i, d) ==
    IF i = 0 THEN d
    ELSE LET e == events[i]
             k == Key(e)
         IN  IF k \in DOMAIN d
             THEN EventDict(events, i - 1,
                            [d EXCEPT ![k].repeats = @ + e.repeats])
             ELSE EventDict(events, i - 1, (k :> e) @@ d)

Range(f) == {f[x] : x \in DOMAIN f}

\* the dict's values as they come, in any order
ValuesUnsorted(S) ==
    {s \in [1..Cardinality(S) -> S] :
        \A i, j \in 1..Cardinality(S) : i # j => s[i] # s[j]}
\* line 464: sorted(values, key=timestamp); the order of the dict's values,
\* and so the order among equal timestamps, is not fixed by the language
SortedByTimestamp(S) ==
    {s \in [1..Cardinality(S) -> S] :
        /\ \A i, j \in 1..Cardinality(S) : i # j => s[i] # s[j]
        /\ \A i, j \in 1..Cardinality(S) : i < j => s[i].timestamp <= s[j].timestamp}

\* a drain that leaves the events in the buffer
EventListAfterDrainKeeps(list) == list
\* lines 451-453, under _event_lock: the buffer after the drain
EventListAfterDrain(list) == << >>

\* the batches action_send_events may pass to add_events for a drained list
Batches(events) == SortedByTimestamp(Range(EventDict(events, Len(events), << >>)))

\* action_send_events, followed by the sleep of action_loop
ActionSendEvents ==
    /\ r_pc = "send_events"
    /\ r_pc' = "sleep"
    /\ wake_at' = now + t_wait
    /\ IF now - t_last_events >= events_timedelta
       THEN \E events \in Batches(event_list) :
              IF events # << >>
              THEN \/ /\ rpc_log' = [rpc_log EXCEPT !.add_events = events,
                                                    !.batches = @ + 1,
                                                    !.prev_events = rpc_log.add_events]
                      /\ event_list' = EventListAfterDrain(event_list)
                      /\ t_last_events' = now
                      /\ hist' = [hist EXCEPT !.drained = event_list,
                                              !.appended = << >>, !.calls = 0]
                   \/ \* add_events raises: line 467 is skipped
                      /\ event_list' = add_event(EventListAfterDrain(event_list),
                            "FlowControlReactor.action_loop", "ERROR",
                            Traceback("add_events"), 1)
                      /\ hist' = [hist EXCEPT !.drained = event_list,
                            !.appended = <<Event("FlowControlReactor.action_loop",
                                                 "ERROR", Traceback("add_events"), 1)>>,
                            !.calls = 0]
                      /\ rpc_log' = [rpc_log EXCEPT !.add_events = events,
                                                    !.batches = @ + 1,
                                                    !.prev_events = rpc_log.add_events]
                      /\ UNCHANGED t_last_events
              ELSE /\ event_list' = EventListAfterDrain(event_list)
                   /\ t_last_events' = now
                   /\ hist' = [hist EXCEPT !.appended = << >>, !.calls = 0]
                   /\ UNCHANGED rpc_log
       ELSE UNCHANGED <<event_list, t_last_events, rpc_log, hist>>
    /\ UNCHANGED <<now, queue, config, adapterVars, pluginVars, lifeVars, mainVars, current_task_by_thread, ping_data,
                   ping_idle_points, t_last_ping, num_ping_sent, action_on, hk_th>>

(***************************************************************************)
(* The clock.                                                              *)
(***************************************************************************)
Tick ==
    /\ now < MaxTime
    /\ now' = now + 1
    /\ UNCHANGED <<queue, config, adapterVars, pluginVars, lifeVars, mainVars, reactorVars, threadVars, rpc_log, hist>>

(***************************************************************************)
(* Initial states: the worker has been configured, the reactor has been    *)
(* constructed and started, and the consumer is about to pop.              *)
(***************************************************************************)
InitAt(configs, sent) ==
    /\ now = 0
    /\ queue = << >>
    /\ config \in configs
    /\ pc = "pop"
    /\ msg_obj = None
    /\ popped = 0
    /\ sampling_config = None
    /\ sampling_rate_last_updated = 0
    /\ expired_count = 0
    /\ count = 0
    /\ exit_code = 0
    /\ current_task_by_thread = << >>
    /\ ping_data = ping_template
    /\ ping_idle_points = <<0, 0>>
    /\ t_last_ping \in (1 - ping_timedelta)..0
    /\ num_ping_sent = sent
    /\ event_list = << >>
    /\ t_last_events \in 0..(events_timedelta - 1)
    /\ action_on = TRUE
    /\ r_pc = "sleep"
    /\ wake_at = 0
    /\ hk_th = None
    /\ rpc_log = [mark_for_termination |-> [i \in 1..MaxMessages |-> 0],
                  marked |-> [i \in 1..MaxMessages |-> 0],
                  ping |-> None, pings |-> 0, ping_calls |-> 0,
                  tasks_reported |-> 0,
                  add_events |-> << >>, batches |-> 0, prev_events |-> << >>]
    /\ hist = [result |-> [i \in 1..MaxMessages |-> "none"],
               handler_calls |-> [i \in 1..MaxMessages |-> 0],
               received |-> 0, ended |-> 0,
               passed |-> None,
               refresh |-> "none", attempts |-> 0,
               killed |-> FALSE, produced |-> 0, t_start |-> 0,
               flushes |-> sent + 1, success_at_flush |-> 0, flushed_points |-> <<0, 0>>,
               appended |-> << >>, drained |-> << >>, calls |-> 0]
    /\ pp = None
    /\ call_log = None
    /\ w_pc = "flow"
    /\ flow = "simple_queue_processor"
    /\ cls = [initialized |-> FALSE, can_init |-> TRUE, instance |-> 1]
    /\ constructed = 1
    /\ life_log = [calls |-> 0, returned |-> {1}, direct_ok |-> 0, rejected |-> 0,
                   starts |-> 1, stops |-> 0, looping |-> TRUE, flow_exc |-> None]
    /\ plugin_dirs = << >>
    /\ category_filter = None
    /\ collected = FALSE
    /\ registry = << >>
    /\ plug_log = NoPluginLog
    /\ lookup_log = NoLookups

\* the reactor has been constructed and started, and no ping flush has
\* happened yet
InitWith(configs) == InitAt(configs, -1)

Configs == [zmon_url : BOOLEAN, vars_ok : BOOLEAN]

\* the messages of the concurrent runs: well-formed envelopes
CoreMessages ==
    {Message(frame, "base64", TaskRecord("cleanup", None, TRUE, <<0, 0>>)) :
        frame \in {"json", "garbage"}}

Init == InitWith({[zmon_url |-> TRUE, vars_ok |-> TRUE]})

\* a producer (the scheduler) pushes a message onto the broker list
Produce(messages, cap) ==
    /\ hist.produced < MaxMessages
    /\ Len(queue) < cap
    /\ \E m \in messages : queue' = Append(queue, m)
    /\ hist' = [hist EXCEPT !.produced = @ + 1]
    /\ UNCHANGED <<now, config, adapterVars, pluginVars, lifeVars, mainVars, reactorVars, threadVars, rpc_log>>


MainNext ==
    \/ PopMessage
    \/ Backoff
    \/ RefreshSampling
    \/ ProcessMessage
    \/ HandlerReturns
    \/ HandlerRaises
    \/ HandlerInterrupted

ReactorNext ==
    \/ ReactorWake
    \/ ActionHardKill
    \/ HardKillRpcReturns
    \/ HardKillRpcRaises
    \/ ActionSendPing
    \/ ActionSendEvents

Next == Produce(CoreMessages, MaxQueue) \/ MainNext \/ ReactorNext \/ Tick

Spec == Init /\ [][Next]_vars

\* the two threads when the reactor thread keeps being scheduled: a step of
\* action_loop that can be taken is taken, an outbound RPC call ends, and
\* time passes
InitLive == Init /\ t_last_ping = 0

SpecLive == InitLive /\ [][Next]_vars /\ WF_vars(ReactorNext) /\ WF_vars(Tick)

(***************************************************************************)
(* The same two threads from a moment at which the reactor has made its    *)
(* first ping flush (_num_ping_sent = 0), less than a ping period ago, and *)
(* the consumer has not popped a message yet: the ticks counted from here  *)
(* on reach the parent with the next flush.                                *)
(***************************************************************************)
InitWarm == InitAt({[zmon_url |-> TRUE, vars_ok |-> TRUE]}, 0)

SpecWarm == InitWarm /\ [][Next]_vars

\* the two threads from either moment: before and after the first ping flush
InitPing == Init \/ InitWarm

SpecPing == InitPing /\ [][Next]_vars

(***************************************************************************)
(* The consumer alone, on every kind of message: the reactor thread is     *)
(* left unscheduled.                                                       *)
(***************************************************************************)
ExpiresValues ==
    {None} \cup {<<t, "">> : t \in 1..(MaxTime + LocalOffset)}
           \cup {<<1, "Z">>, <<1, "+00:00">>}

IntakeMessages ==
    {Message("json", "base64", TaskRecord(task, expires, utc, <<0, 0>>)) :
        task \in {"cleanup", "no_such_task"}, expires \in ExpiresValues,
        utc \in BOOLEAN}
    \cup
    {Message(frame, enc, TaskRecord("cleanup", None, TRUE, timelimit)) :
        frame \in {"json", "snappy", "garbage"},
        enc \in {"nested", "base64", "snappy", "zlib"},
        timelimit \in {<<1, 0>>, None}}

InitIntake == InitWith(Configs) /\ t_last_ping = 0 /\ t_last_events = 0

NextIntake == Produce(IntakeMessages, 1) \/ MainNext \/ Tick

SpecIntake == InitIntake /\ [][NextIntake]_vars

(***************************************************************************)
(* The consumer alone, on envelopes of every body encoding and on every    *)
(* kind of timelimit pair.                                                 *)
(***************************************************************************)
BodyEncodings == {"nested", "base64", "snappy"}
\* properties without a body_encoding: dict.get gives None, which no branch
\* of the decoder matches
NoBodyEncoding == "null"
UnknownEncodings == {"zlib", NoBodyEncoding}
\* [t_hard, t_soft] as a producer may write it: the code takes any pair
Timelimits == {<<2, 1>>, <<1, 2>>, <<0, -1>>}
DecodeRecords ==
    {TaskRecord("cleanup", None, TRUE, timelimit) : timelimit \in Timelimits}
    \cup {TaskRecord("trial_run", <<1, "">>, TRUE, <<2, 1>>)}

\* a body_encoding = snappy body written as snappy(base64(json(task)))
SnappyOfBase64(rec) == SnappyCompress(B64Encode(Json(rec)))

DecodeMessages ==
    {Message("json", enc, rec) : enc \in BodyEncodings, rec \in DecodeRecords}
    \cup {Message("json", enc, TaskRecord("cleanup", None, TRUE, <<2, 1>>)) :
             enc \in UnknownEncodings}
    \cup {[frame |-> "json", body_encoding |-> "snappy",
           body |-> SnappyOfBase64(TaskRecord("cleanup", None, TRUE, <<2, 1>>))]}
    \cup {Message("garbage", "base64", TaskRecord("cleanup", None, TRUE, <<2, 1>>))}

InitDecode == InitWith(Configs) /\ t_last_ping = 0 /\ t_last_events = 0

NextDecode == Produce(DecodeMessages, 1) \/ MainNext \/ Tick

SpecDecode == InitDecode /\ [][NextDecode]_vars

(***************************************************************************)
(* The consumer alone with a broker that may fail: get_healthy_conn or     *)
(* blpop raises inside `with conn_handler as ch`, the exception leaves the *)
(* with block and reaches the handler of the loop.                         *)
(***************************************************************************)
\* lines 181-185 raise: no message is taken from the list
BrokerFails ==
    /\ pc = "pop"
    /\ pc' = "backoff"
    /\ UNCHANGED <<now, queue, config, adapterVars, pluginVars, lifeVars, msg_obj,
                   popped, sampling_config, sampling_rate_last_updated,
                   expired_count, count, exit_code, reactorVars, threadVars,
                   rpc_log, hist>>

InitLoop == InitWith(Configs) /\ t_last_ping = 0 /\ t_last_events = 0

NextLoop == Produce(DecodeMessages, 1) \/ BrokerFails \/ MainNext \/ Tick

SpecLoop == InitLoop /\ [][NextLoop]_vars

(***************************************************************************)
(* The event buffer: add_event called from outside the reactor (a task in  *)
(* the main thread) while the reactor loop runs and flushes.               *)
(***************************************************************************)
AddEventCall ==
    /\ hist.calls < MaxCalls
    /\ \E type \in {"INFO", "ERROR"}, repeats \in {1, 2} :
         /\ event_list' = add_event(event_list, "check_and_notify", type,
                                    <<"message">>, repeats)
         /\ hist' = [hist EXCEPT
               !.appended = Append(@, Event("check_and_notify", type,
                                            <<"message">>, repeats)),
               !.calls = @ + 1]
    /\ UNCHANGED <<now, queue, config, adapterVars, pluginVars, lifeVars, mainVars, current_task_by_thread, ping_data,
                   ping_idle_points, t_last_ping, num_ping_sent, t_last_events,
                   action_on, threadVars, rpc_log>>

InitEvents == InitWith({[zmon_url |-> TRUE, vars_ok |-> TRUE]})

NextEvents ==
    \/ AddEventCall
    \/ ReactorWake
    \/ ActionHardKill
    \/ ActionSendPing
    \/ ActionSendEvents
    \/ Tick

SpecEvents == InitEvents /\ [][NextEvents]_vars

(***************************************************************************)
(* The life of the worker process: start_worker_for_queue, and the class   *)
(* attributes of FlowControlReactor that guard its construction.           *)
(***************************************************************************)
known_flows == {"simple_queue_processor"}
Flows == known_flows \cup {"no_such_flow"}
NoInstance == 0
UserSignals == {"KeyboardInterrupt", "SystemExit"}

\* line 367: the assert of __init__, read through the object being built.
\* Line 368 assigns self._initialized, an attribute of the object: the class
\* attribute the next construction reads is never set.
CanConstruct(c) == ~c.initialized /\ c.can_init

\* get_instance, lines 389-394, on class attributes c with n objects built
get_instance(c, n) ==
    IF c.instance = NoInstance
    THEN LET c1 == [c EXCEPT !.can_init = TRUE]
         IN  IF CanConstruct(c1)
             THEN [cls |-> [c1 EXCEPT !.instance = n + 1], constructed |-> n + 1,
                   result |-> n + 1]
             ELSE [cls |-> c1, constructed |-> n, result |-> "AssertionError"]
    ELSE [cls |-> c, constructed |-> n, result |-> c.instance]

\* a call of FlowControlReactor.get_instance() from anywhere in the process
GetInstanceCall ==
    /\ life_log.calls < MaxLifeCalls
    /\ LET r == get_instance(cls, constructed)
       IN  /\ cls' = r.cls
           /\ constructed' = r.constructed
           /\ life_log' = [life_log EXCEPT !.calls = @ + 1,
                                           !.returned = @ \cup {r.result}]
    /\ UNCHANGED <<now, queue, config, adapterVars, pluginVars, mainVars, reactorVars, threadVars, rpc_log,
                   hist, w_pc, flow>>

\* a direct FlowControlReactor() from anywhere in the process
DirectConstruct ==
    /\ life_log.calls < MaxLifeCalls
    /\ IF CanConstruct(cls)
       THEN /\ constructed' = constructed + 1
            /\ life_log' = [life_log EXCEPT !.calls = @ + 1, !.direct_ok = @ + 1]
       ELSE /\ constructed' = constructed
            /\ life_log' = [life_log EXCEPT !.calls = @ + 1, !.rejected = @ + 1]
    /\ UNCHANGED <<now, queue, config, adapterVars, pluginVars, mainVars, reactorVars, threadVars, rpc_log,
                   hist, w_pc, flow, cls>>

\* the classes of exception that can leave the flow: the user signals, an
\* Exception, and any other BaseException (GeneratorExit, a class that does
\* not derive from Exception)
FlowExceptions == UserSignals \cup {"Exception", "BaseException"}
\* lines 535-540: exit_code is 0 unless the `except Exception` clause ran
ExitCodeFor(exc) == IF exc = "Exception" THEN 2 ELSE 0

\* lines 519-521: the check of the flow name
WorkerEntry ==
    /\ w_pc = "entry"
    /\ IF flow \notin known_flows
       THEN /\ exit_code' = 1
            /\ w_pc' = "exited"
       ELSE /\ exit_code' = exit_code
            /\ w_pc' = "start_reactor"
    /\ UNCHANGED <<now, queue, config, adapterVars, pluginVars, pc, msg_obj, popped, sampling_config,
                   sampling_rate_last_updated, expired_count, count, reactorVars,
                   threadVars, rpc_log, hist, flow, cls, constructed, life_log>>

\* lines 532-535: FlowControlReactor.get_instance().start(); exit_code = 0
WorkerStartReactor ==
    /\ w_pc = "start_reactor"
    /\ LET r == get_instance(cls, constructed)
       IN  /\ cls' = r.cls
           /\ constructed' = r.constructed
           /\ life_log' = [life_log EXCEPT !.returned = @ \cup {r.result},
                                           !.starts = @ + 1]
    /\ action_on' = TRUE
    /\ exit_code' = 0
    /\ w_pc' = "flow"
    /\ UNCHANGED <<now, queue, config, adapterVars, pluginVars, pc, msg_obj, popped, sampling_config,
                   sampling_rate_last_updated, expired_count, count,
                   current_task_by_thread, ping_data, ping_idle_points, t_last_ping,
                   num_ping_sent, event_list, t_last_events, threadVars, rpc_log,
                   hist, flow>>

\* lines 156-176: the flow ends its setup (get_instance at line 171) and
\* enters its loop
WorkerFlowLoops ==
    /\ w_pc = "flow"
    /\ ~life_log.looping
    /\ LET r == get_instance(cls, constructed)
       IN  /\ cls' = r.cls
           /\ constructed' = r.constructed
           /\ life_log' = [life_log EXCEPT !.returned = @ \cup {r.result},
                                           !.looping = TRUE]
    /\ UNCHANGED <<now, queue, config, adapterVars, pluginVars, mainVars, reactorVars, threadVars, rpc_log,
                   hist, w_pc, flow>>

\* lines 537-540: the flow is left by exc.  An Exception escapes only from
\* the setup of the flow, whose loop catches it (lines 233-243); the other
\* classes are caught nowhere in the flow.
WorkerFlowLeft ==
    /\ w_pc = "flow"
    /\ \E exc \in FlowExceptions :
          /\ exc = "Exception" => ~life_log.looping
          /\ exit_code' = ExitCodeFor(exc)
          /\ life_log' = [life_log EXCEPT !.flow_exc = exc]
    /\ w_pc' = "finally"
    /\ UNCHANGED <<now, queue, config, adapterVars, pluginVars, pc, msg_obj, popped, sampling_config,
                   sampling_rate_last_updated, expired_count, count, reactorVars,
                   threadVars, rpc_log, hist, flow, cls, constructed>>

\* lines 541-542: FlowControlReactor.get_instance().stop(); sys.exit(exit_code)
WorkerFinally ==
    /\ w_pc = "finally"
    /\ LET r == get_instance(cls, constructed)
       IN  /\ cls' = r.cls
           /\ constructed' = r.constructed
           /\ life_log' = [life_log EXCEPT !.returned = @ \cup {r.result},
                                           !.stops = @ + 1]
    /\ action_on' = FALSE
    /\ w_pc' = "exited"
    /\ UNCHANGED <<now, queue, config, adapterVars, pluginVars, mainVars, current_task_by_thread, ping_data,
                   ping_idle_points, t_last_ping, num_ping_sent, event_list,
                   t_last_events, threadVars, rpc_log, hist, flow>>

\* the workflow variables of a process in which start_worker_for_queue has
\* not been called yet
InitIdle ==
    /\ now = 0
    /\ queue = << >>
    /\ config = [zmon_url |-> TRUE, vars_ok |-> TRUE]
    /\ pc = "pop"
    /\ msg_obj = None
    /\ popped = 0
    /\ sampling_config = None
    /\ sampling_rate_last_updated = 0
    /\ expired_count = 0
    /\ count = 0
    /\ exit_code = None
    /\ current_task_by_thread = << >>
    /\ ping_data = ping_template
    /\ ping_idle_points = <<0, 0>>
    /\ t_last_ping = 0
    /\ num_ping_sent = -1
    /\ event_list = << >>
    /\ t_last_events = 0
    /\ action_on = FALSE
    /\ r_pc = "sleep"
    /\ wake_at = 0
    /\ hk_th = None
    /\ rpc_log = [mark_for_termination |-> [i \in 1..MaxMessages |-> 0],
                  marked |-> [i \in 1..MaxMessages |-> 0],
                  ping |-> None, pings |-> 0, ping_calls |-> 0,
                  tasks_reported |-> 0,
                  add_events |-> << >>, batches |-> 0, prev_events |-> << >>]
    /\ hist = [result |-> [i \in 1..MaxMessages |-> "none"],
               handler_calls |-> [i \in 1..MaxMessages |-> 0],
               received |-> 0, ended |-> 0,
               passed |-> None,
               refresh |-> "none", attempts |-> 0,
               killed |-> FALSE, produced |-> 0, t_start |-> 0,
               flushes |-> 0, success_at_flush |-> 0, flushed_points |-> <<0, 0>>,
               appended |-> << >>, drained |-> << >>, calls |-> 0]
    /\ pp = None
    /\ call_log = None
    /\ w_pc = "entry"
    /\ cls = [initialized |-> FALSE, can_init |-> FALSE, instance |-> NoInstance]
    /\ constructed = 0
    /\ life_log = [calls |-> 0, returned |-> {}, direct_ok |-> 0, rejected |-> 0,
                   starts |-> 0, stops |-> 0, looping |-> FALSE, flow_exc |-> None]

\* the process before start_worker_for_queue is called
InitWorker ==
    /\ InitIdle
    /\ flow \in Flows
    /\ plugin_dirs = << >>
    /\ category_filter = None
    /\ collected = FALSE
    /\ registry = << >>
    /\ plug_log = NoPluginLog
    /\ lookup_log = NoLookups

NextWorker ==
    \/ WorkerEntry
    \/ WorkerStartReactor
    \/ WorkerFlowLoops
    \/ WorkerFlowLeft
    \/ WorkerFinally
    \/ GetInstanceCall
    \/ DirectConstruct

SpecWorker == InitWorker /\ [][NextWorker]_vars

(***************************************************************************)
(* The plugin manager: init_plugin_manager and collect_plugins, and the    *)
(* plugin directories they scan.  A manifest declares a name, a category   *)
(* and a [configuration] section; beside it there may be a                 *)
(* requirements.txt; its class does or does not satisfy the interface of   *)
(* its category.                                                           *)
(***************************************************************************)
PluginNames == {"http", "color_germany"}
Categories == {"Function", "Color"}
\* the modules that can be imported in the worker's environment
Importable == {"os"}
RequirementFiles == {<< >>, <<"os">>, <<"dep_a", "os", "dep_b">>}
ConfigKeys == {"fashion_sites"}
ManifestConfigs == {<< >>, [k \in ConfigKeys |-> "x y"]}
Manifests ==
    [name : PluginNames, category : Categories, requirements : RequirementFiles,
     satisfies : BOOLEAN, configuration : ManifestConfigs]
\* the category filter of init_plugin_manager(): the default one and the one
\* of the tests
CategoryFilters == {{"Function"}, {"Function", "Color"}}
\* global_config: the keys plugin.<name>.<key>, as <<name, key>>
GlobalConfigs ==
    {<< >>,
     (<<"color_germany", "fashion_sites">> :> "p q"),
     (<<"color_germany", "fashion_sites">> :> "p q")
        @@ (<<"other_plugin", "fashion_sites">> :> "o")}

PluginError(kind, plugin, names) ==
    [type |-> "PluginFatalError", kind |-> kind, plugin |-> plugin, names |-> names]
\* PluginError is the base of PluginFatalError
IsPluginError(e) == e # None /\ e.type \in {"PluginError", "PluginFatalError"}

\* a requirements check that stops at the first missing dependency
MissingFirstOnly(reqs) ==
    LET miss == {i \in 1..Len(reqs) : reqs[i] \notin Importable}
    IN  IF miss = {} THEN {}
        ELSE {reqs[CHOOSE i \in miss : \A j \in miss : i <= j]}
\* the dependencies of a requirements.txt that are not importable
Missing(reqs) == {reqs[i] : i \in {j \in 1..Len(reqs) : reqs[j] \notin Importable}}

\* a merge that takes every key of global_config, whatever plugin it names
PluginConfigAnyPlugin(m, gconf) ==
    [k \in DOMAIN m.configuration \cup {kk[2] : kk \in DOMAIN gconf} |->
        IF \E kk \in DOMAIN gconf : kk[2] = k
        THEN gconf[CHOOSE kk \in DOMAIN gconf : kk[2] = k]
        ELSE m.configuration[k]]
\* the configuration configure(conf) receives: the manifest's section, with
\* the entries that global_config addresses to this plugin overridden
PluginConfig(m, gconf) ==
    [k \in DOMAIN m.configuration |->
        IF <<m.name, k>> \in DOMAIN gconf THEN gconf[<<m.name, k>>]
        ELSE m.configuration[k]]

\* a filter that lets every category through
InFilterAlways(m, filter) == TRUE
\* the manifest's category is a key of the category filter
InFilter(m, filter) == m.category \in filter

\* a duplicate check that never finds one
IsDuplicateNever(m, reg) == FALSE
\* a plugin of that name is registered already
IsDuplicate(m, reg) == \E i \in 1..Len(reg) : reg[i].name = m.name

\* the descriptor of a plugin that has been instantiated and configured;
\* plugin_object is the identity of the instance, and
\* plugin_object_is_activated is the is_activated attribute of that instance
Descriptor(m, conf, obj) ==
    [name |-> m.name, category |-> m.category, is_activated |-> FALSE,
     plugin_object |-> obj, plugin_object_is_activated |-> FALSE, config |-> conf]

\* an activation that leaves the flags as they are
ActivateNever(d) == d
\* the activation of a configured plugin
Activate(d) ==
    [d EXCEPT !.is_activated = TRUE, !.plugin_object_is_activated = TRUE]

\* an interface check that accepts every class
SatisfiesInterfaceAlways(m) == TRUE
\* the instance satisfies the interface registered for its category
SatisfiesInterface(m) == m.satisfies

\* what is done to plugin i, in order, once its instance passed the check
ActivationOps(i) ==
    <<[op |-> "configure", plugin |-> i], [op |-> "activate", plugin |-> i]>>

\* the scan of the manifests from position i on: st holds the registry, the
\* names instantiated and configured so far, and the error that halted it
RECURSIVE Scan(_, _, _, _, _)
Scan(dirs, i, filter, gconf, st) ==
    IF i > Len(dirs) \/ st.error # None THEN st
    ELSE LET m == dirs[i]
         IN  IF ~InFilter(m, filter)
             THEN Scan(dirs, i + 1, filter, gconf, st)
             ELSE IF Missing(m.requirements) # {}
             THEN [st EXCEPT !.error = PluginError("UnsatisfiedRequirements",
                                                    m.name, Missing(m.requirements))]
             ELSE IF IsDuplicate(m, st.registry)
             THEN [st EXCEPT !.error = PluginError("DuplicateName", m.name, {})]
             ELSE IF ~SatisfiesInterface(m)
             THEN [st EXCEPT !.instantiated = Append(@, i),
                             !.ops = Append(@, [op |-> "instantiate", plugin |-> i]),
                             !.error = PluginError("InterfaceMismatch", m.name, {})]
             ELSE Scan(dirs, i + 1, filter, gconf,
                       [st EXCEPT
                          !.instantiated = Append(@, i),
                          !.configured = Append(@, [plugin |-> i,
                                                    conf |-> PluginConfig(m, gconf)]),
                          !.ops = Append(@, [op |-> "instantiate", plugin |-> i])
                                     \o ActivationOps(i),
                          !.registry = Append(@,
                             Activate(Descriptor(m, PluginConfig(m, gconf), i)))])

\* a collect that does not look at its one-shot flag
AlreadyCollectedNever(flag) == FALSE
\* the one-shot guard of collect
AlreadyCollected(flag) == flag

\* init_plugin_manager(category_filter): the first call sets the filter
InitPluginManager ==
    /\ category_filter = None
    /\ category_filter' \in {<<f>> : f \in CategoryFilters}
    /\ UNCHANGED <<now, queue, config, adapterVars, mainVars, reactorVars, threadVars, rpc_log,
                   hist, lifeVars, plugin_dirs, collected, registry, plug_log,
                   lookup_log>>

\* collect_plugins(..., global_config)
CollectPlugins ==
    /\ category_filter # None
    /\ plug_log.collects < MaxCollects
    /\ \E gconf \in GlobalConfigs :
          IF AlreadyCollected(collected)
          THEN /\ plug_log' = [plug_log EXCEPT
                                 !.collects = @ + 1,
                                 !.error = PluginError("AlreadyCollected", None, {}),
                                 !.before = registry]
               /\ UNCHANGED <<collected, registry, lookup_log>>
          ELSE LET st == Scan(plugin_dirs, 1, category_filter[1], gconf,
                              [registry |-> registry, error |-> None,
                               instantiated |-> << >>, configured |-> << >>,
                               ops |-> << >>])
               IN  /\ collected' = TRUE
                   /\ registry' = st.registry
                   /\ plug_log' = [collects |-> plug_log.collects + 1,
                                   error |-> st.error,
                                   instantiated |-> st.instantiated,
                                   configured |-> st.configured,
                                   ops |-> st.ops,
                                   before |-> registry,
                                   global_config |-> gconf]
                   /\ lookup_log' = [lookup_log EXCEPT !.seen = {}]
    /\ UNCHANGED <<now, queue, config, adapterVars, mainVars, reactorVars, threadVars, rpc_log,
                   hist, lifeVars, plugin_dirs, category_filter>>

\* the result of a lookup that finds no plugin
NoPlugin == 0

\* get_plugin_by_name(name, category): the descriptor registered under the
\* pair, or None
get_plugin_by_name(reg, name, category) ==
    LET found == {i \in 1..Len(reg) :
                     reg[i].name = name /\ reg[i].category = category}
    IN  IF found = {} THEN None ELSE reg[CHOOSE i \in found : TRUE]

\* a lookup that builds a new instance of the plugin class on every call
get_plugin_obj_by_nameNewInstance(reg, name, category) ==
    LET d == get_plugin_by_name(reg, name, category)
    IN  IF d = None THEN NoPlugin
        ELSE d.plugin_object + Len(plugin_dirs) * (lookup_log.count + 1)
\* get_plugin_obj_by_name(name, category): the plugin object of that descriptor
get_plugin_obj_by_name(reg, name, category) ==
    LET d == get_plugin_by_name(reg, name, category)
    IN  IF d = None THEN NoPlugin ELSE d.plugin_object

\* get_plugin_objs_of_category(category): the plugin objects of the category,
\* in the order of their registration
get_plugin_objs_of_category(reg, category) ==
    LET in_cat == SelectSeq(reg, LAMBDA d : d.category = category)
    IN  [k \in 1..Len(in_cat) |-> in_cat[k].plugin_object]

\* one round of lookups of (name, category) by a user of the registry
LookupPlugin ==
    /\ category_filter # None
    /\ lookup_log.count < MaxLookups
    /\ \E name \in PluginNames, category \in Categories :
          LET desc == get_plugin_by_name(registry, name, category)
              obj == get_plugin_obj_by_name(registry, name, category)
              objs == get_plugin_objs_of_category(registry, category)
          IN  lookup_log' =
                 [count |-> lookup_log.count + 1,
                  last |-> [name |-> name, category |-> category, desc |-> desc,
                            obj |-> obj, objs |-> objs],
                  seen |-> lookup_log.seen \cup
                             {<<name, category, obj>>,
                              <<name, category,
                                IF desc = None THEN NoPlugin ELSE desc.plugin_object>>}]
    /\ UNCHANGED <<now, queue, config, adapterVars, mainVars, reactorVars, threadVars, rpc_log,
                   hist, lifeVars, plugin_dirs, category_filter, collected, registry,
                   plug_log>>

\* the process after the (re)load of the plugin manager module, for every
\* content of the scanned directories
InitPlugins ==
    /\ InitIdle
    /\ flow = "simple_queue_processor"
    /\ plugin_dirs \in UNION {[1..n -> Manifests] : n \in 0..MaxManifests}
    /\ category_filter = None
    /\ collected = FALSE
    /\ registry = << >>
    /\ plug_log = NoPluginLog
    /\ lookup_log = NoLookups

NextPlugins ==
    \/ InitPluginManager
    \/ CollectPlugins
    \/ LookupPlugin

SpecPlugins == InitPlugins /\ [][NextPlugins]_vars

(***************************************************************************)
(* ProtectedPartial (adapters/ifunctionfactory_plugin.py): a partial       *)
(* application whose keyword '__protected' lists the names a caller may    *)
(* not override.  Keyword arguments are dicts from names to values; a      *)
(* value is a sequence of strings, the list given under '__protected'      *)
(* included.                                                               *)
(***************************************************************************)
ProtectedKey == "__protected"
ArgNames == {"base", "host"}
ArgValues == {<<"bound">>, <<"given">>}
PositionalArgs == {<< >>, <<"100">>, <<"100", "200">>}
ProtectedLists == {<< >>, <<"base">>, <<"host", "base">>, <<"timeout">>,
                   <<"__protected">>}

KwargsOver(names, values) == UNION {[S -> values] : S \in SUBSET names}
\* **kwargs of the constructor: ordinary names, with or without '__protected'
BoundKwargs ==
    KwargsOver(ArgNames, {<<"bound">>})
    \cup {(ProtectedKey :> l) @@ kw :
             l \in ProtectedLists, kw \in KwargsOver(ArgNames, {<<"bound">>})}
\* **kwargs of a call
CallKwargs == KwargsOver(ArgNames \cup {ProtectedKey}, {<<"given">>})

\* dict.get(key, default)
DictGet(d, key, default) == IF key \in DOMAIN d THEN d[key] ELSE default
\* the entries of d whose key is in keys
DictFilter(d, keys) == [k \in DOMAIN d \cap keys |-> d[k]]

\* ProtectedPartial.__init__, lines 34-39
ProtectedPartial(func, args, kwargs) ==
    [func |-> func,
     partial_args |-> args,
     protected |-> Range(DictGet(kwargs, ProtectedKey, << >>)),
     partial_kwargs |-> DictPop(kwargs, ProtectedKey)]

\* functools.partial: every keyword of the call overrides the bound one
ProtectedPartialCallPlain(p, args, kwargs) ==
    [func |-> p.func, args |-> p.partial_args \o args,
     kwargs |-> DictUpdate(p.partial_kwargs, kwargs)]
\* ProtectedPartial.__call__, lines 41-44: the call made on the wrapped function
ProtectedPartialCall(p, args, kwargs) ==
    LET new_kwargs ==
           DictUpdate(p.partial_kwargs,
                      DictFilter(kwargs, {k \in DOMAIN kwargs : k \notin p.protected}))
    IN  [func |-> p.func, args |-> p.partial_args \o args, kwargs |-> new_kwargs]

\* propartial(func, *args, **kwargs), lines 47-57
propartial ==
    /\ pp = None
    /\ \E args \in PositionalArgs, kwargs \in BoundKwargs :
          pp' = [obj |-> ProtectedPartial("int", args, kwargs),
                 args |-> args, kwargs |-> kwargs]
    /\ UNCHANGED <<now, queue, config, mainVars, reactorVars, threadVars, rpc_log,
                   hist, lifeVars, pluginVars, call_log>>

\* a call of the object with *args and **kwargs
CallPartial ==
    /\ pp # None
    /\ \E args \in PositionalArgs, kwargs \in CallKwargs :
          call_log' = [args |-> args, kwargs |-> kwargs,
                       invoked |-> ProtectedPartialCall(pp.obj, args, kwargs)]
    /\ UNCHANGED <<now, queue, config, mainVars, reactorVars, threadVars, rpc_log,
                   hist, lifeVars, pluginVars, pp>>

InitPartial == InitPlugins /\ plugin_dirs = << >>

NextPartial == propartial \/ CallPartial

SpecPartial == InitPartial /\ [][NextPartial]_vars

(***************************************************************************)
(* The claims.                                                             *)
(***************************************************************************)
Body == DecodeBody(msg_obj.body_encoding, msg_obj.body)
\* the step of process_message on the message in hand
ProcessStep == pc = "process" /\ pc' # "process"
HandlerInvoked == hist'.handler_calls[popped] = hist.handler_calls[popped] + 1
\* the expiry time of the message is strictly later than the current time
StillValid(rec) ==
    \/ rec.expires = None
    \/ rec.expires[1] > (IF rec.utc THEN now ELSE now + LocalOffset)
ExpiredDrop ==
    /\ pc' = "pop"
    /\ current_task_by_thread' = current_task_by_thread
    /\ ping_data' = ping_data
    /\ event_list' = event_list
    /\ hist'.received = hist.received
    /\ hist'.result[popped] = "expired"
    /\ expired_count' = expired_count + 1

\* C1 (as amended): for every popped message that decodes to a well-formed
\* Task Record naming a task of the handler table, process_message invokes the
\* handler iff the expiry time is strictly later than the current time (UTC
\* when utc is true, local otherwise; a missing expires never expires); no
\* handler is ever invoked for an expired message, and when now >= expires the
\* message is dropped without task_received: the running-task map, the ping
\* accumulator and the event buffer are unchanged, the result is 'expired'
\* and expired_count grows by one.
C1_ExpiryGate ==
    [][(ProcessStep /\ Body # DecodeFailure /\ Body.rec.timelimit # None) =>
         /\ HandlerInvoked => StillValid(Body.rec)
         /\ Body.rec.task \in known_tasks =>
               (HandlerInvoked <=> StillValid(Body.rec))
         /\ ~StillValid(Body.rec) => ExpiredDrop]_vars

\* C1 as stated: every popped, decodable message has its handler invoked iff
\* it has not expired.
C1_Original ==
    [][(ProcessStep /\ Body # DecodeFailure /\ Body.rec.timelimit # None) =>
         /\ HandlerInvoked <=> StillValid(Body.rec)
         /\ ~StillValid(Body.rec) => ExpiredDrop]_vars

\* an expired message was dropped and another message reached its handler
C1_Witness ==
    /\ expired_count = 1
    /\ \E i, j \in 1..MaxMessages :
          hist.result[i] = "expired" /\ hist.handler_calls[j] = 1

\* C2 (as amended): the running-task map holds an entry only for the main
\* thread, and only while a task executes there or after its scope was left
\* by an interrupt-class exception (task_ended is then skipped); the entry is
\* that of the task in hand.  While a task executes, and after an interrupt,
\* the entry is there unless a hard-kill action has removed it.  Once the
\* scope has been left by a return or an ordinary exception there is no entry.
C2_MapTracksScope ==
    /\ DOMAIN current_task_by_thread \subseteq {Main}
    /\ Main \in DOMAIN current_task_by_thread =>
          current_task_by_thread[Main].id = popped
    /\ IF pc \in {"running", "exited"}
       THEN Main \in DOMAIN current_task_by_thread <=> ~hist.killed
       ELSE current_task_by_thread = << >>

\* C2 as stated, for as long as the consumer loop runs: an entry iff a task is
\* executing in the thread, exactly one from task_received until the handler
\* returns or raises.
C2_Original ==
    pc # "exited" =>
       (Main \in DOMAIN current_task_by_thread <=> pc = "running")

\* a second task executes with its entry while the reactor is in a hard kill
C2_Witness ==
    /\ pc = "running"
    /\ popped = 2
    /\ Main \in DOMAIN current_task_by_thread
    /\ hist.ended = 1
    /\ r_pc = "hk_rpc"

\* C3: task_ended is called exactly once on every way of leaving the scope
\* of enter_task_context, an interrupt-class exception included.
C3_TaskEndedOnEveryExit ==
    pc # "running" => hist.ended = hist.received

KillCalls(id) == rpc_log.mark_for_termination[id]
\* a step in which action_hard_kill asks the parent to kill for task id
KillRequested(id) == rpc_log'.mark_for_termination[id] = KillCalls(id) + 1
KillEvent(e) ==
    /\ e.origin = "FlowControlReactor.action_hard_kill"
    /\ e.type = "ACTION"
    /\ e.timestamp = now
    /\ e.repeats = 1

\* C4 (as amended): when action_hard_kill finds a running task whose
\* deadline has passed (now > t_start + t_hard) it buffers one ACTION event
\* with origin 'FlowControlReactor.action_hard_kill' and then calls
\* mark_for_termination(pid) once.  When the call returns, the thread's entry
\* is removed from the running-task map and no later tick repeats the
\* request: at most one request returns per task.  When the call raises, the
\* entry is left in place, an ERROR event of action_loop is buffered, and the
\* request is repeated at a later tick.
C4_HardKillOnce ==
    /\ [](\A id \in 1..MaxMessages : rpc_log.marked[id] <= 1)
    /\ [][/\ (r_pc # "hk_rpc" /\ r_pc' = "hk_rpc") =>
               /\ Main \in DOMAIN current_task_by_thread
               /\ now > current_task_by_thread[Main].ts
                        + current_task_by_thread[Main].t_hard
               /\ hk_th'.id = current_task_by_thread[Main].id
               /\ Len(event_list') > 0
               /\ KillEvent(event_list'[Len(event_list')])
               /\ Len(hist'.appended) = Len(hist.appended) + 1
               /\ rpc_log' = rpc_log
          /\ \A id \in 1..MaxMessages :
               /\ KillRequested(id) =>
                     /\ r_pc = "hk_rpc" /\ r_pc' = "send_ping"
                     /\ hk_th.id = id
                     /\ rpc_log.marked[id] = 0
               /\ rpc_log'.marked[id] = rpc_log.marked[id] + 1 =>
                     /\ KillRequested(id)
                     /\ Main \notin DOMAIN current_task_by_thread'
               /\ (KillRequested(id) /\ rpc_log'.marked[id] = rpc_log.marked[id]) =>
                     /\ current_task_by_thread' = current_task_by_thread
                     /\ Len(event_list') > 0
                     /\ event_list'[Len(event_list')].origin
                           = "FlowControlReactor.action_loop"
                     /\ event_list'[Len(event_list')].type = "ERROR"
          /\ (r_pc = "hk_rpc" /\ r_pc' # "hk_rpc") =>
               \E id \in 1..MaxMessages : KillRequested(id)]_vars

\* C4 as stated: exactly one request per task, whether the RPC returns or
\* raises.
C4_Original ==
    \A id \in 1..MaxMessages : KillCalls(id) <= 1

\* a request that raised was repeated and the repeat returned
C4_Witness ==
    \E id \in 1..MaxMessages :
        /\ KillCalls(id) = 2
        /\ rpc_log.marked[id] = 1
        /\ Main \notin DOMAIN current_task_by_thread
        /\ pc = "running"

\* C5: every message popped from the broker list leads to at most one handler
\* invocation (none before it is popped) and is never pushed back: every
\* message produced is either still in the list or was popped exactly once.
C5_AtMostOnceNoRequeue ==
    /\ \A i \in 1..MaxMessages :
          /\ hist.handler_calls[i] <= 1
          /\ i > popped => hist.handler_calls[i] = 0
    /\ popped + Len(queue) = hist.produced

\* a handler exception and an expired message, both popped, the list empty
C5_Witness ==
    /\ popped = 2
    /\ queue = << >>
    /\ hist.result[1] = "error" /\ hist.handler_calls[1] = 1
    /\ hist.result[2] = "expired" /\ hist.handler_calls[2] = 0

\* C6: when a handler raises an exception the consumer loop goes on to the
\* next pop; task_ended buffers exactly one ERROR event with origin
\* 'FlowControlReactor.task_ended', tasks_done is not incremented, the entry of
\* the thread is gone, and the message's result is 'error'.
C6_HandlerException ==
    [][(pc = "running" /\ pc' # "running" /\ pc' # "exited"
          /\ hist'.result[popped] # "success") =>
         /\ pc' = "pop"
         /\ hist'.result[popped] = "error"
         /\ hist'.ended = hist.ended + 1
         /\ Len(event_list') > 0
         /\ event_list'[Len(event_list')].origin = "FlowControlReactor.task_ended"
         /\ event_list'[Len(event_list')].type = "ERROR"
         /\ event_list'[Len(event_list')].timestamp = now
         /\ Len(event_list') = (IF Len(event_list) < max_keep_events
                                THEN Len(event_list) + 1 ELSE max_keep_events)
         /\ Len(hist'.appended) = Len(hist.appended) + 1
         /\ ping_data' = ping_data
         /\ Main \notin DOMAIN current_task_by_thread'
         /\ queue' = queue
         /\ count' = count + 1]_vars

\* after a handler exception the next message is in its handler
C6_Witness ==
    /\ popped = 2
    /\ pc = "running"
    /\ hist.result[1] = "error"
    /\ hist.handler_calls[1] = 1
    /\ ping_data.tasks_done = 0
    /\ \E i \in 1..Len(hist.appended) :
          hist.appended[i].origin = "FlowControlReactor.task_ended"

\* C7: the event buffer never holds more than _max_keep_events entries, and
\* it holds the newest of the events appended since the last drain, in the
\* order of their appends: the oldest are the ones discarded.
C7_EventBufferBounded ==
    /\ Len(event_list) <= max_keep_events
    /\ LET n == Len(hist.appended)
           k == IF n > max_keep_events THEN max_keep_events ELSE n
       IN  /\ Len(event_list) = k
           /\ \A i \in 1..k : event_list[i] = hist.appended[n - k + i]

\* more events were appended than the buffer keeps, from both threads
C7_Witness ==
    /\ Len(hist.appended) > max_keep_events
    /\ Len(event_list) = max_keep_events
    /\ event_list[1] # hist.appended[1]
    /\ \E i, j \in 1..Len(hist.appended) :
          /\ hist.appended[i].origin = "check_and_notify"
          /\ hist.appended[j].origin = "FlowControlReactor.action_loop"

RECURSIVE SumRepeats(_, _)
SumRepeats(events, I) ==
    IF I = {} THEN 0
    ELSE LET i == CHOOSE x \in I : TRUE
         IN  events[i].repeats + SumRepeats(events, I \ {i})
Indices(events, k) == {i \in 1..Len(events) : Key(events[i]) = k}

\* C8: in each flush, the drained events that share (origin, type, body)
\* appear in the batch as one record whose repeats is the sum of theirs and
\* whose timestamp is the latest of theirs; the batch holds nothing else, and
\* the repeats of the batch add up to those of the drained events.
C8_FlushCollapses ==
    LET batch == rpc_log.add_events
        drained == hist.drained
    IN  /\ \A i \in 1..Len(drained) :
              LET k == Key(drained[i])
              IN  /\ Cardinality(Indices(batch, k)) = 1
                  /\ \A b \in Indices(batch, k) :
                        /\ batch[b].repeats = SumRepeats(drained, Indices(drained, k))
                        /\ \A j \in Indices(drained, k) :
                              batch[b].timestamp >= drained[j].timestamp
                        /\ \E j \in Indices(drained, k) :
                              batch[b].timestamp = drained[j].timestamp
        /\ \A b \in 1..Len(batch) : Indices(drained, Key(batch[b])) # {}
        /\ SumRepeats(batch, 1..Len(batch)) = SumRepeats(drained, 1..Len(drained))

\* a flush collapsed two events of different times and repeats into one record
C8_Witness ==
    /\ rpc_log.batches >= 1
    /\ Len(hist.drained) = 2
    /\ Len(rpc_log.add_events) = 1
    /\ hist.drained[1].timestamp < hist.drained[2].timestamp
    /\ hist.drained[1].repeats = 2
    /\ rpc_log.add_events[1].repeats = 3

\* a step of the consumer that attempts a refresh of the sampling config
RefreshAttempt == hist'.attempts = hist.attempts + 1

\* C9: when a refresh attempt fails (the GET fails, or the refresh raises),
\* the sampling config in effect before the attempt, entity values included,
\* is the one in effect after it.
C9_FailedRefreshKeepsConfig ==
    [][(RefreshAttempt /\ sampling_config # None
          /\ hist'.refresh \in {"http_failed", "raised"}) =>
         sampling_config' = sampling_config]_vars

\* C10 (as amended): the first message to reach the refresh always triggers
\* an attempt.  Once a sampling config is in effect, an attempt is made only
\* when more than sampling_update_rate seconds have passed since the previous
\* attempt, whether that one loaded the entity or the GET failed.  While no
\* config is in effect, which after an attempt means that get_sampling_rate_config
\* raised, every message triggers a new attempt.
C10_RefreshRate ==
    /\ []((hist.attempts >= 1 /\ sampling_config = None) => ~config.vars_ok)
    /\ [][/\ (pc = "sampling" /\ pc' # "sampling" /\ hist.attempts = 0)
                => RefreshAttempt
          /\ (RefreshAttempt /\ sampling_config # None) =>
                now - sampling_rate_last_updated > SAMPLING_RATE_UPDATE_DURATION
          /\ (pc = "sampling" /\ pc' # "sampling" /\ sampling_config = None)
                => RefreshAttempt
          /\ RefreshAttempt =>
                /\ pc = "sampling"
                /\ sampling_rate_last_updated' = now]_vars

\* C10 as stated: two attempts are never less than sampling_update_rate
\* seconds apart, whether the previous one succeeded or failed.
C10_Original ==
    [][(RefreshAttempt /\ hist.attempts >= 1) =>
          now - sampling_rate_last_updated >= SAMPLING_RATE_UPDATE_DURATION]_vars

\* a second attempt was made after a failed GET, a period later
C10_Witness ==
    /\ hist.attempts = 2
    /\ hist.refresh = "http_failed"
    /\ sampling_config # None
    /\ sampling_rate_last_updated > SAMPLING_RATE_UPDATE_DURATION

\* C11: a failed sampling refresh never keeps the message that triggered it
\* from being processed: the step that makes the attempt goes on to
\* process_message with the same message in hand, process_message receives the
\* sampling config in effect after the attempt, and the loop enters its error
\* backoff only from a payload that does not decode, never from the refresh.
C11_RefreshFailureDoesNotBlock ==
    [][/\ (RefreshAttempt /\ hist'.refresh \in {"http_failed", "raised"}) =>
             /\ pc' = "process"
             /\ msg_obj' = msg_obj
             /\ popped' = popped
             /\ queue' = queue
       /\ (pc = "process" /\ pc' = "running") => hist'.passed = sampling_config
       /\ (pc = "process" /\ pc' # "process") => hist'.result[popped] # "loop_error"
       /\ (pc # "backoff" /\ pc' = "backoff") =>
             (pc = "pop" /\ ~FrameDecodes(msg_obj'.frame))]_vars

\* the handler runs on the message whose refresh raised, with no config
C11_Witness ==
    /\ pc = "running"
    /\ hist.refresh = "raised"
    /\ hist.passed = None
    /\ hist.handler_calls[popped] = 1

\* the steps in which an outbound RPC of a reactor action raised: the
\* statements after the call were skipped
HardKillRaised ==
    \E id \in 1..MaxMessages :
       KillRequested(id) /\ rpc_log'.marked[id] = rpc_log.marked[id]
PingRaised ==
    /\ r_pc = "send_ping" /\ r_pc' # "send_ping"
    /\ now - t_last_ping >= ping_timedelta
    /\ num_ping_sent >= 0
    /\ num_ping_sent' = num_ping_sent
EventsRaised ==
    /\ r_pc = "send_events"
    /\ rpc_log'.batches = rpc_log.batches + 1
    /\ t_last_events' = t_last_events
LoopErrorBuffered ==
    /\ Len(event_list') > 0
    /\ event_list'[Len(event_list')].origin = "FlowControlReactor.action_loop"
    /\ event_list'[Len(event_list')].type = "ERROR"
    /\ event_list'[Len(event_list')].timestamp = now
    /\ hist'.appended # << >>
    /\ hist'.appended[Len(hist'.appended)] = event_list'[Len(event_list')]
ReactorOrder ==
    {<<"sleep", "hard_kill">>, <<"sleep", "done">>, <<"hard_kill", "hk_rpc">>,
     <<"hard_kill", "send_ping">>, <<"hk_rpc", "send_ping">>,
     <<"send_ping", "send_events">>, <<"send_events", "sleep">>}

\* C12: an exception raised by a reactor action (a failing outbound RPC)
\* never stops the reactor loop: an ERROR event with origin
\* 'FlowControlReactor.action_loop' is buffered, the remaining actions of the
\* tick run in the order hard-kill, ping, events, and the loop ends only when
\* it finds action_on false after its sleep.
C12_ReactorLoopSurvives ==
    /\ [](r_pc = "done" => ~action_on)
    /\ [][/\ r_pc' # r_pc => <<r_pc, r_pc'>> \in ReactorOrder
          /\ (r_pc = "sleep" /\ r_pc' # "sleep") =>
                r_pc' = (IF action_on THEN "hard_kill" ELSE "done")
          /\ HardKillRaised => (LoopErrorBuffered /\ r_pc' = "send_ping")
          /\ PingRaised => (LoopErrorBuffered /\ r_pc' = "send_events")
          /\ EventsRaised =>
                (LoopErrorBuffered /\ r_pc' = "sleep" /\ wake_at' = now + t_wait)]_vars

\* in one tick both mark_for_termination and ping raised, and the tick went
\* on to the events action
C12_Witness ==
    /\ r_pc = "send_events"
    /\ action_on
    /\ Len(hist.appended) >= 2
    /\ hist.appended[Len(hist.appended)].body = Traceback("ping")
    /\ hist.appended[Len(hist.appended) - 1].body = Traceback("mark_for_termination")
    /\ hist.appended[Len(hist.appended)].timestamp
          = hist.appended[Len(hist.appended) - 1].timestamp

\* C13: handlers are invoked in the order in which their messages were
\* popped, and messages are popped oldest first; a handler invocation begins
\* only when no task is executing, so the running-task map never holds more
\* than one entry.
C13_FifoOneAtATime ==
    /\ [](Cardinality(DOMAIN current_task_by_thread) <= 1)
    /\ [][/\ \A i \in 1..MaxMessages :
                hist'.handler_calls[i] > hist.handler_calls[i] =>
                   /\ i = popped
                   /\ pc = "process" /\ pc' = "running"
                   /\ current_task_by_thread = << >>
                   /\ hist.ended = hist.received
                   /\ \A j \in 1..MaxMessages : j > i => hist.handler_calls[j] = 0
          /\ popped' # popped =>
                /\ popped' = popped + 1
                /\ pc = "pop"
                /\ queue # << >>
                /\ msg_obj' = queue[1]
                /\ queue' = SubSeq(queue, 2, Len(queue))]_vars

\* the second message's handler runs after the first one's has ended
C13_Witness ==
    /\ pc = "running"
    /\ popped = 2
    /\ hist.handler_calls = <<1, 1>>
    /\ hist.result[1] = "success"
    /\ Cardinality(DOMAIN current_task_by_thread) = 1

\* C14: at most one FlowControlReactor object is ever constructed:
\* get_instance() always returns the same object, and a direct
\* FlowControlReactor() is rejected before and after get_instance().
C14_SingleInstance ==
    /\ constructed <= 1
    /\ life_log.direct_ok = 0
    /\ Cardinality(life_log.returned) <= 1

\* C15: start_worker_for_queue exits with 1 for an unknown flow name without
\* having started the reactor; for a known flow the reactor was started once,
\* the exit code is 0 when a user signal left the flow and 2 when another
\* exception did, and reactor.stop() was called before the exit.
C15_ExitCodes ==
    /\ life_log.starts > 0 => flow \in known_flows
    /\ w_pc = "exited" =>
          IF flow \notin known_flows
          THEN /\ exit_code = 1
               /\ life_log.starts = 0
               /\ ~action_on
               /\ life_log.stops = 0
          ELSE /\ life_log.starts = 1
               /\ life_log.stops = 1
               /\ ~action_on
               /\ life_log.flow_exc \in UserSignals => exit_code = 0
               /\ life_log.flow_exc \notin UserSignals => exit_code = 2

\* the manifests of the scanned directories, as the claims see them
Dir(i) == plugin_dirs[i]
Selected(i) == Dir(i).category \in category_filter[1]
MissingNames(i) ==
    {d \in {"os", "dep_a", "dep_b"} :
        /\ \E j \in 1..Len(Dir(i).requirements) : Dir(i).requirements[j] = d
        /\ d \notin Importable}
NameTaken(i) == \E k \in 1..(i - 1) : Selected(k) /\ Dir(k).name = Dir(i).name
\* manifest i is skipped or activated without an error
Clean(i) ==
    Selected(i) => (MissingNames(i) = {} /\ Dir(i).satisfies /\ ~NameTaken(i))
\* the scan of the first collect gets to manifest i
Reached(i) == \A j \in 1..(i - 1) : Clean(j)
CollectStep == plug_log'.collects = plug_log.collects + 1
Registered(i) == \E d \in 1..Len(registry) : registry[d].plugin_object = i

\* C16: on one registry every collect after the first, whatever its
\* arguments, fails with PluginFatalError and leaves the registered plugins
\* as they were.
C16_CollectOnce ==
    [][(CollectStep /\ plug_log.collects >= 1) =>
          /\ plug_log'.error # None
          /\ plug_log'.error.type = "PluginFatalError"
          /\ registry' = registry]_vars

\* a second collect failed on a registry that holds a plugin
C16_Witness ==
    /\ plug_log.collects = 2
    /\ Len(registry) >= 1
    /\ plug_log.error # None
    /\ plug_log.error.kind = "AlreadyCollected"
    /\ plug_log.before = registry

\* C17: when the scan reaches a selected plugin whose requirements.txt
\* lists dependencies that are not importable, collect fails with a
\* PluginError whose message names every one of them.
C17_AllMissingNamed ==
    plug_log.collects = 1 =>
       \A i \in 1..Len(plugin_dirs) :
          (Reached(i) /\ Selected(i) /\ MissingNames(i) # {}) =>
             /\ IsPluginError(plug_log.error)
             /\ plug_log.error.kind = "UnsatisfiedRequirements"
             /\ plug_log.error.plugin = Dir(i).name
             /\ MissingNames(i) \subseteq plug_log.error.names
             /\ ~Registered(i)

\* a requirements.txt with two missing dependencies around an importable one
C17_Witness ==
    /\ plug_log.collects = 1
    /\ plug_log.error # None
    /\ plug_log.error.kind = "UnsatisfiedRequirements"
    /\ plug_log.error.names = {"dep_a", "dep_b"}

\* C18: for a manifest whose category is not a key of the category filter,
\* collect creates no instance, registers no descriptor and raises no error,
\* and goes on with the manifests after it.
C18_FilteredOutSkipped ==
    plug_log.collects >= 1 =>
       \A i \in 1..Len(plugin_dirs) :
          /\ ~Selected(i) =>
                /\ \A k \in 1..Len(plug_log.instantiated) : plug_log.instantiated[k] # i
                /\ \A k \in 1..Len(plug_log.configured) :
                      plug_log.configured[k].plugin # i
                /\ ~Registered(i)
          /\ (Reached(i) /\ Selected(i) /\ Clean(i)) => Registered(i)
          /\ (\A j \in 1..Len(plugin_dirs) : Clean(j)) =>
                (plug_log.collects = 1 => plug_log.error = None)

\* a broken plugin outside the filter was skipped and the next one activated
C18_Witness ==
    /\ plug_log.collects = 1
    /\ Len(plugin_dirs) = 2
    /\ ~Selected(1)
    /\ ~Dir(1).satisfies
    /\ Dir(1).requirements = <<"dep_a", "os", "dep_b">>
    /\ Registered(2)
    /\ plug_log.error = None

\* C19: the configuration passed to configure is the manifest's
\* [configuration] section with each key overridden by the value global_config
\* gives under plugin.<name>.<key>; what global_config addresses to other
\* plugins is not in it.
C19_ConfigPrecedence ==
    \A c \in 1..Len(plug_log.configured) :
       LET i == plug_log.configured[c].plugin
           conf == plug_log.configured[c].conf
           g == plug_log.global_config
       IN  /\ DOMAIN Dir(i).configuration \subseteq DOMAIN conf
           /\ \A k \in DOMAIN conf :
                 IF <<Dir(i).name, k>> \in DOMAIN g
                 THEN conf[k] = g[<<Dir(i).name, k>>]
                 ELSE k \in DOMAIN Dir(i).configuration
                      /\ conf[k] = Dir(i).configuration[k]
           /\ \E d \in 1..Len(registry) :
                 registry[d].plugin_object = i /\ registry[d].config = conf

\* color_germany got the global value, http kept its own, and the key of
\* another plugin was in global_config
C19_Witness ==
    /\ Len(plug_log.configured) = 2
    /\ <<"other_plugin", "fashion_sites">> \in DOMAIN plug_log.global_config
    /\ \E a, b \in 1..2 :
          /\ Dir(plug_log.configured[a].plugin).name = "color_germany"
          /\ plug_log.configured[a].conf = [k \in ConfigKeys |-> "p q"]
          /\ Dir(plug_log.configured[b].plugin).name = "http"
          /\ plug_log.configured[b].conf = [k \in ConfigKeys |-> "x y"]

\* C20: no two descriptors of the registry share (name, category); when the
\* scan reaches a selected plugin whose name is registered already, collect
\* fails with PluginFatalError and the first descriptor stays, alone.
C20_UniqueNames ==
    /\ \A a, b \in 1..Len(registry) :
          (registry[a].name = registry[b].name
             /\ registry[a].category = registry[b].category) => a = b
    /\ plug_log.collects = 1 =>
          \A i \in 1..Len(plugin_dirs) :
             (Reached(i) /\ Selected(i) /\ MissingNames(i) = {} /\ NameTaken(i)) =>
                /\ plug_log.error # None
                /\ plug_log.error.type = "PluginFatalError"
                /\ plug_log.error.plugin = Dir(i).name
                /\ ~Registered(i)
                /\ \E k \in 1..(i - 1) : Dir(k).name = Dir(i).name /\ Registered(k)

\* a second plugin named like a registered one of another category
C20_Witness ==
    /\ plug_log.collects = 1
    /\ Len(plugin_dirs) = 2
    /\ Dir(1).name = Dir(2).name
    /\ Dir(1).category # Dir(2).category
    /\ Len(registry) = 1
    /\ plug_log.error # None
    /\ plug_log.error.kind = "DuplicateName"

\* C21: within one collect cycle get_plugin_obj_by_name(name, category), the
\* plugin_object of get_plugin_by_name(name, category) and the matching
\* element of get_plugin_objs_of_category(category) are the same object, and
\* repeated lookups of the pair return that same object.
C21_LookupIdentity ==
    /\ \A a, b \in lookup_log.seen : (a[1] = b[1] /\ a[2] = b[2]) => a[3] = b[3]
    /\ lookup_log.last # None =>
          LET l == lookup_log.last
          IN  IF l.desc = None
              THEN l.obj = NoPlugin
              ELSE /\ l.obj = l.desc.plugin_object
                   /\ Cardinality({k \in 1..Len(l.objs) : l.objs[k] = l.obj}) = 1
                   /\ l.desc.name = l.name
                   /\ l.desc.category = l.category

\* the same pair was looked up twice after the collect, in a category of two
\* plugins, and both lookups found the one object
C21_Witness ==
    /\ collected
    /\ lookup_log.count = 2
    /\ Cardinality(lookup_log.seen) = 1
    /\ \A a \in lookup_log.seen : a[3] # NoPlugin
    /\ Len(lookup_log.last.objs) = 2
    /\ lookup_log.last.objs[2] = lookup_log.last.obj

\* the positions of the operation op on plugin i in the history of the collect
OpsAt(op, i) ==
    {k \in 1..Len(plug_log.ops) :
        plug_log.ops[k].op = op /\ plug_log.ops[k].plugin = i}

\* C22: every descriptor of the registry, and every descriptor a lookup
\* returns, has is_activated = true, and so has its plugin object;
\* configure(conf) was invoked on the plugin object, once, before it was
\* marked activated.
C22_ActivatedAfterConfigure ==
    /\ \A d \in 1..Len(registry) :
          /\ registry[d].is_activated
          /\ registry[d].plugin_object_is_activated = registry[d].is_activated
          /\ Cardinality(OpsAt("configure", registry[d].plugin_object)) = 1
          /\ Cardinality(OpsAt("activate", registry[d].plugin_object)) = 1
          /\ \A c \in OpsAt("configure", registry[d].plugin_object),
                a \in OpsAt("activate", registry[d].plugin_object) : c < a
          /\ \E c \in 1..Len(plug_log.configured) :
                /\ plug_log.configured[c].plugin = registry[d].plugin_object
                /\ plug_log.configured[c].conf = registry[d].config
    /\ (lookup_log.last # None /\ lookup_log.last.desc # None) =>
          /\ lookup_log.last.desc.is_activated
          /\ lookup_log.last.desc.plugin_object_is_activated

\* a collect without an error registered two plugins and a lookup returned
\* one of them
C22_Witness ==
    /\ plug_log.collects = 1
    /\ plug_log.error = None
    /\ Len(registry) = 2
    /\ lookup_log.last # None
    /\ lookup_log.last.desc # None
    /\ lookup_log.last.desc.plugin_object = 2

\* C23: when the scan reaches a selected plugin whose instance does not
\* satisfy the interface of its category, collect fails with a
\* PluginFatalError that names the plugin, the plugin is not registered, and
\* no manifest after it is instantiated, configured or activated.
C23_InterfaceMismatchHalts ==
    plug_log.collects >= 1 =>
       \A i \in 1..Len(plugin_dirs) :
          (Reached(i) /\ Selected(i) /\ MissingNames(i) = {} /\ ~NameTaken(i)
             /\ ~Dir(i).satisfies) =>
             /\ plug_log.collects = 1 =>
                   /\ plug_log.error # None
                   /\ plug_log.error.type = "PluginFatalError"
                   /\ plug_log.error.plugin = Dir(i).name
             /\ ~Registered(i)
             /\ OpsAt("configure", i) = {} /\ OpsAt("activate", i) = {}
             /\ \A j \in (i + 1)..Len(plugin_dirs) :
                   /\ \A k \in 1..Len(plug_log.ops) : plug_log.ops[k].plugin # j
                   /\ \A k \in 1..Len(plug_log.instantiated) :
                         plug_log.instantiated[k] # j
                   /\ ~Registered(j)

\* the first plugin broke the interface and a sound, selected one came after
C23_Witness ==
    /\ plug_log.collects = 1
    /\ Len(plugin_dirs) = 2
    /\ Selected(1) /\ ~Dir(1).satisfies
    /\ Selected(2) /\ Dir(2).satisfies /\ MissingNames(2) = {}
    /\ Dir(2).name # Dir(1).name
    /\ plug_log.error # None
    /\ plug_log.error.kind = "InterfaceMismatch"
    /\ plug_log.instantiated = <<1>>
    /\ registry = << >>

\* C24: a message whose body_encoding is missing or outside {nested,
\* base64, snappy} is a decode error: task_received is not called and no
\* handler is invoked for it, its result is 'error', it is not pushed back,
\* and the loop goes on to the next pop.
C24_UnknownEncodingDropped ==
    [][(ProcessStep /\ msg_obj.body_encoding \notin BodyEncodings) =>
          /\ pc' = "pop"
          /\ hist'.result[popped] = "error"
          /\ hist'.received = hist.received
          /\ hist'.handler_calls = hist.handler_calls
          /\ current_task_by_thread' = current_task_by_thread
          /\ ping_data' = ping_data
          /\ queue' = queue
          /\ count' = count + 1]_vars

\* a message without body_encoding was dropped and the loop is back at the
\* pop, with the next message waiting in the list
C24_Witness ==
    /\ popped = 1
    /\ msg_obj.body_encoding = NoBodyEncoding
    /\ hist.result[1] = "error"
    /\ hist.handler_calls[1] = 0
    /\ hist.received = 0
    /\ count = 1
    /\ pc = "pop"
    /\ queue # << >>

\* the running-task entry of the main thread
Entry == current_task_by_thread[Main]
\* process_message enters the executor with the fields of rec
EnteredWith(rec) ==
    /\ pc' = "running"
    /\ Main \in DOMAIN current_task_by_thread'
    /\ current_task_by_thread'[Main].taskname = rec.task
    /\ current_task_by_thread'[Main].t_hard = rec.timelimit[1]
    /\ current_task_by_thread'[Main].t_soft = rec.timelimit[2]
    /\ current_task_by_thread'[Main].ts = now
\* the message in hand round-trips to rec and is dispatched as rec
RoundTrip(rec) ==
    /\ Body # DecodeFailure
    /\ Body.rec = rec
    /\ IF StillValid(rec) THEN EnteredWith(rec) ELSE pc' = "pop"

\* C25 (as amended): for each body_encoding in {nested, base64, snappy},
\* decoding an envelope body produced by the matching encoding (nested: the
\* record itself; base64: base64(json(task)); snappy:
\* base64(snappy(json(task)))) yields the original Task Record, and the
\* executor is entered with the taskname, t_hard and t_soft of that record.
C25_BodyRoundTrip ==
    [][ProcessStep =>
          \A rec \in DecodeRecords :
             /\ (msg_obj.body_encoding = "nested"
                   /\ msg_obj.body = [layers |-> << >>, rec |-> rec])
                  => RoundTrip(rec)
             /\ (msg_obj.body_encoding = "base64"
                   /\ msg_obj.body = B64Encode(Json(rec)))
                  => RoundTrip(rec)
             /\ (msg_obj.body_encoding = "snappy"
                   /\ msg_obj.body = B64Encode(SnappyCompress(Json(rec))))
                  => RoundTrip(rec)]_vars

\* C25 as stated: a snappy body produced by snappy(base64(json(task)))
\* round-trips to the original Task Record.
C25_Original ==
    [][ProcessStep =>
          \A rec \in DecodeRecords :
             (msg_obj.body_encoding = "snappy"
                /\ msg_obj.body = SnappyOfBase64(rec))
               => RoundTrip(rec)]_vars

\* a base64(snappy(json(task))) body was decoded and its task is running with
\* the limits of its timelimit pair
C25_Witness ==
    /\ pc = "running"
    /\ msg_obj.body_encoding = "snappy"
    /\ msg_obj.body = B64Encode(SnappyCompress(Json(
                         TaskRecord("cleanup", None, TRUE, <<2, 1>>))))
    /\ Entry.taskname = "cleanup"
    /\ Entry.t_hard = 2
    /\ Entry.t_soft = 1

\* C26: every entry of the running-task map satisfies t_hard >= t_soft >= 0,
\* whatever timelimit pair the popped message carried.
C26_TimelimitOrdered ==
    \A th \in DOMAIN current_task_by_thread :
       /\ current_task_by_thread[th].t_hard >= current_task_by_thread[th].t_soft
       /\ current_task_by_thread[th].t_soft >= 0

\* the names the constructor was told to protect
ProtectedNames ==
    IF ProtectedKey \in DOMAIN pp.kwargs
    THEN {pp.kwargs[ProtectedKey][i] : i \in 1..Len(pp.kwargs[ProtectedKey])}
    ELSE {}
\* the call passes the bound positionals, then its own; a keyword of the call
\* that is not protected overrides the bound one; for a protected name the
\* bound value is kept and the caller's is dropped
MergedCall ==
    LET out == call_log.invoked
    IN  /\ out.func = "int"
        /\ out.args = pp.args \o call_log.args
        /\ \A k \in ArgNames :
              IF k \in DOMAIN call_log.kwargs /\ k \notin ProtectedNames
              THEN k \in DOMAIN out.kwargs /\ out.kwargs[k] = call_log.kwargs[k]
              ELSE IF k \in DOMAIN pp.kwargs
              THEN k \in DOMAIN out.kwargs /\ out.kwargs[k] = pp.kwargs[k]
              ELSE k \notin DOMAIN out.kwargs
        /\ DOMAIN out.kwargs \subseteq ArgNames \cup {ProtectedKey}

\* C27 (as amended): calling a ProtectedPartial invokes the wrapped function
\* with the bound positional arguments followed by the call-time ones, and
\* with keyword arguments equal to the bound ones overridden by the call-time
\* ones, except that for every name in the protected set the bound value is
\* kept and the caller's value is dropped without error; the '__protected'
\* key given to the constructor is never passed to the function, while a
\* '__protected' keyword given at call time is passed on like any other name
\* that is not protected.
C27_ProtectedPartial ==
    call_log # None =>
       /\ MergedCall
       /\ ProtectedKey \in DOMAIN call_log.invoked.kwargs <=>
             (ProtectedKey \in DOMAIN call_log.kwargs
                /\ ProtectedKey \notin ProtectedNames)
       /\ ProtectedKey \in DOMAIN call_log.invoked.kwargs =>
             call_log.invoked.kwargs[ProtectedKey] = call_log.kwargs[ProtectedKey]

\* C27 as stated: the '__protected' key is never passed to the function.
C27_Original ==
    call_log # None =>
       /\ MergedCall
       /\ ProtectedKey \notin DOMAIN call_log.invoked.kwargs

\* base is bound and protected, host is bound and free; the call gives both,
\* and a positional argument after the bound one
C27_Witness ==
    /\ call_log # None
    /\ pp.kwargs = (ProtectedKey :> <<"base">>)
                      @@ [k \in ArgNames |-> <<"bound">>]
    /\ pp.args = <<"100">>
    /\ call_log.args = <<"100", "200">>
    /\ call_log.kwargs = [k \in ArgNames |-> <<"given">>]
    /\ call_log.invoked.args = <<"100", "100", "200">>
    /\ call_log.invoked.kwargs = [k \in ArgNames |->
                                    IF k = "base" THEN <<"bound">> ELSE <<"given">>]

\* a step of action_send_ping, and whether it is a flush
PingStep == r_pc = "send_ping" /\ r_pc' # "send_ping"
PingFlush == PingStep /\ now - t_last_ping >= ping_timedelta
PingCalled == rpc_log'.ping_calls = rpc_log.ping_calls + 1

\* C28: the first ping flush after the construction of the reactor swaps
\* and discards the accumulator without calling the parent's ping RPC; every
\* later flush calls ping(pid, data) exactly once, with the accumulator
\* gathered since the previous flush: the tasks that returned since then and
\* the idle and total ticks counted since then.  Nothing else calls ping.
C28_FirstPingDiscarded ==
    /\ [](rpc_log.ping_calls = IF hist.flushes = 0 THEN 0 ELSE hist.flushes - 1)
    /\ [][/\ PingFlush =>
                /\ hist'.flushes = hist.flushes + 1
                /\ ping_data' = ping_template
                /\ ping_idle_points' = <<0, 0>>
                /\ IF hist.flushes = 0
                   THEN rpc_log' = rpc_log
                   ELSE /\ PingCalled
                        /\ rpc_log'.ping.tasks_done = Successes - hist.success_at_flush
                        /\ rpc_log'.ping.tasks_done = ping_data.tasks_done
                        /\ rpc_log'.ping.task_duration = ping_data.task_duration
                        /\ rpc_log'.ping.percent_idle =
                              PercentIdle(ping_idle_points[1], ping_idle_points[2])
          /\ ~PingFlush =>
                /\ rpc_log'.ping_calls = rpc_log.ping_calls
                /\ hist'.flushes = hist.flushes]_vars

\* the first flush swapped out and discarded a finished task without calling
\* the parent
C28_Witness ==
    /\ hist.flushes = 1
    /\ num_ping_sent = 0
    /\ rpc_log.ping_calls = 0
    /\ rpc_log.ping = None
    /\ Successes = 1
    /\ hist.success_at_flush = 1
    /\ ping_data.tasks_done = 0

\* the value of a fraction lies in [lo, hi]
FractionIn(f, lo, hi) == f[2] > 0 /\ lo * f[2] <= f[1] /\ f[1] <= hi * f[2]

\* C29: between ping flushes every reactor tick adds 1 to total_points, and
\* 1 to idle_points iff the running-task map is empty at that tick, so
\* 0 <= idle_points <= total_points always; every transmitted percent_idle
\* is 100 * idle_points / total_points (0 when total_points is 0) and lies in
\* [0, 100].
C29_IdlePoints ==
    /\ [](/\ 0 <= ping_idle_points[1]
           /\ ping_idle_points[1] <= ping_idle_points[2]
           /\ rpc_log.ping # None => FractionIn(rpc_log.ping.percent_idle, 0, 100))
    /\ [][/\ (PingStep /\ ~PingFlush) =>
                /\ ping_idle_points'[2] = ping_idle_points[2] + 1
                /\ ping_idle_points'[1] = ping_idle_points[1] +
                      (IF current_task_by_thread = << >> THEN 1 ELSE 0)
          /\ ~PingStep => ping_idle_points' = ping_idle_points
          /\ PingCalled =>
                IF ping_idle_points[2] = 0
                THEN rpc_log'.ping.percent_idle = Fraction(0, 1)
                ELSE rpc_log'.ping.percent_idle =
                        Fraction(100 * ping_idle_points[1], ping_idle_points[2])]_vars

\* a ping was transmitted whose accumulator held one tick, a tick that
\* found a task running, and the tick after the flush found none
C29_Witness ==
    /\ rpc_log.ping_calls = 1
    /\ hist.flushed_points = <<0, 1>>
    /\ rpc_log.ping.percent_idle = Fraction(0, 1)
    /\ rpc_log.ping.tasks_done = 1
    /\ ping_idle_points = <<0, 0>>

\* C30: every batch passed to the parent's add_events RPC is sorted by
\* non-decreasing timestamp, and no event of a batch is older than an event
\* of the batch passed before it.
C30_BatchesAscending ==
    LET batch == rpc_log.add_events
        prev == rpc_log.prev_events
    IN  /\ \A i, j \in 1..Len(batch) :
              i < j => batch[i].timestamp <= batch[j].timestamp
        /\ \A i \in 1..Len(prev), j \in 1..Len(batch) :
              prev[i].timestamp <= batch[j].timestamp
        /\ rpc_log.batches >= 1 => batch # << >>
        /\ rpc_log.batches >= 2 => prev # << >>

\* a second batch was sent, of two records with different timestamps, the
\* older of them as old as the newest of the batch before
C30_Witness ==
    /\ rpc_log.batches = 2
    /\ Len(rpc_log.add_events) = 2
    /\ rpc_log.add_events[1].timestamp < rpc_log.add_events[2].timestamp
    /\ rpc_log.prev_events # << >>
    /\ rpc_log.prev_events[Len(rpc_log.prev_events)].timestamp
          = rpc_log.add_events[1].timestamp

\* the steps in which the consumer loop meets an error: the pop ends without
\* a message, the raw payload does not parse, the body does not decode
BrokerError == pc = "pop" /\ pc' # "pop" /\ popped' = popped
FrameError == popped' = popped + 1 /\ ~FrameDecodes(msg_obj'.frame)
BodyError == ProcessStep /\ Body = DecodeFailure

\* C31: a broker failure or a decode error (a raw payload that does not
\* parse, a body that does not decode, an unknown body encoding) never ends
\* the consumer loop: each of them is followed by the backoff sleep of the
\* loop before the next pop, and the loop is left only by an interrupt,
\* never by an Exception.
C31_ErrorsBackOff ==
    /\ [](pc = "exited" => hist.result[popped] = "interrupted")
    /\ [][/\ (BrokerError \/ FrameError \/ BodyError) => pc' = "backoff"
          /\ (pc = "backoff" /\ pc' # "backoff") => pc' = "pop"]_vars

\* task id is executing in the main thread
Executing(id) == pc = "running" /\ popped = id
\* the task in hand has run for longer than its t_hard
PastHardDeadline == now > hist.t_start + Body.rec.timelimit[1]

\* C32: while the reactor loop runs, a task that is still executing past its
\* hard deadline when the reactor comes to a hard-kill action gets a
\* mark_for_termination request, unless it ends first; the reactor thread is
\* scheduled fairly and the RPC calls end.
C32_OverdueEventuallyMarked ==
    \A id \in 1..MaxMessages :
        (Executing(id) /\ PastHardDeadline /\ action_on /\ r_pc = "hard_kill")
            ~> (KillCalls(id) >= 1 \/ ~Executing(id))

\* C33: mark_for_termination is requested only for a task that is still
\* executing and past its own t_hard at the moment of the request, whatever
\* the interleaving of task_ended with the snapshot, the deadline check and
\* the RPC of action_hard_kill; stated for as long as the consumer loop runs.
C33_KillOnlyExecuting ==
    [][\A id \in 1..MaxMessages :
          (KillRequested(id) /\ pc # "exited") =>
              (Executing(id) /\ PastHardDeadline)]_vars

\* the step in which the mark_for_termination call of a hard kill returns
HardKillReturned ==
    \E id \in 1..MaxMessages : rpc_log'.marked[id] = rpc_log.marked[id] + 1

\* C34: action_hard_kill removes from the running-task map only the entry
\* whose deadline it saw exceeded: when the overdue task has ended and the
\* thread has registered a new task while the RPC was in flight, the new
\* task's entry is still in the map when the action completes.
C34_RemovesOnlyObserved ==
    [][(HardKillReturned /\ Main \in DOMAIN current_task_by_thread
          /\ current_task_by_thread[Main].id # hk_th.id) =>
         /\ Main \in DOMAIN current_task_by_thread'
         /\ current_task_by_thread'[Main] = current_task_by_thread[Main]]_vars

\* the step in which the task in hand leaves its scope by a return
TaskReturns ==
    /\ popped > 0
    /\ hist.result[popped] # "success"
    /\ hist'.result[popped] = "success"

\* C35: every task that leaves its scope without an exception adds exactly
\* one to tasks_done, in the accumulator in use at that moment and in no
\* other: the accumulator in use counts exactly the tasks that returned since
\* the last swap, a swap takes all of them out at once, and a ping passes the
\* swapped-out count, so that no returned task is counted in two pings.
C35_TasksDoneOnce ==
    /\ [](/\ ping_data.tasks_done = Successes - hist.success_at_flush
           /\ rpc_log.tasks_reported <= hist.success_at_flush)
    /\ [][/\ TaskReturns => ping_data'.tasks_done = ping_data.tasks_done + 1
          /\ PingFlush =>
                /\ ping_data'.tasks_done = 0
                /\ hist'.success_at_flush = Successes
                /\ rpc_log'.tasks_reported \in
                      {rpc_log.tasks_reported,
                       rpc_log.tasks_reported + ping_data.tasks_done}
          /\ (~TaskReturns /\ ~PingFlush) =>
                /\ ping_data'.tasks_done = ping_data.tasks_done
                /\ rpc_log'.tasks_reported = rpc_log.tasks_reported]_vars

\* one returned task was swapped out and reported by a ping; the next one
\* returned after that swap and is counted in the new accumulator
C35_Witness ==
    /\ Successes = 2
    /\ rpc_log.tasks_reported = 1
    /\ ping_data.tasks_done = 1
    /\ hist.success_at_flush = 1

\* C36: a hard kill that has removed the entry of a task does not interrupt
\* its handler; when the handler later returns, task_ended raises nothing,
\* leaves the running-task map as it is, adds one to tasks_done and nothing to
\* task_duration, and the loop goes on to the next pop with result 'success'.
C36_ReturnAfterHardKill ==
    [][/\ HardKillReturned =>
             /\ pc' = pc
             /\ msg_obj' = msg_obj
             /\ hist'.result = hist.result
             /\ hist'.ended = hist.ended
       /\ (TaskReturns /\ Main \notin DOMAIN current_task_by_thread) =>
             /\ current_task_by_thread' = current_task_by_thread
             /\ ping_data'.tasks_done = ping_data.tasks_done + 1
             /\ ping_data'.task_duration = ping_data.task_duration
             /\ event_list' = event_list
             /\ hist'.ended = hist.ended + 1
             /\ pc' = "pop"]_vars

\* the task was marked for termination at least a tick after its start, its
\* handler returned afterwards, and the accumulator holds it with no duration
C36_Witness ==
    /\ popped = 1
    /\ pc = "pop"
    /\ hist.result[1] = "success"
    /\ rpc_log.marked[1] = 1
    /\ now > hist.t_start
    /\ ping_data.tasks_done = 1
    /\ ping_data.task_duration = 0

\* the step of action_send_events that drains a buffer holding events
EventsFlush ==
    /\ r_pc = "send_events" /\ r_pc' # "send_events"
    /\ now - t_last_events >= events_timedelta
    /\ event_list # << >>
AddEventsError ==
    [origin |-> "FlowControlReactor.action_loop", type |-> "ERROR",
     body |-> Traceback("add_events"), repeats |-> 1, timestamp |-> now]

\* C37: the events in the buffer at a flush are all passed, collapsed, to the
\* one add_events call of that flush and leave the buffer for good, whether
\* the call returns or raises (after a raise the buffer holds only the ERROR
\* event of action_loop); no other step calls add_events, so no event is
\* passed twice; and while the reactor runs, a buffer that holds events is
\* eventually flushed into a call.
C37_EventsSentOnce ==
    /\ [][/\ EventsFlush =>
                /\ rpc_log'.batches = rpc_log.batches + 1
                /\ hist'.drained = event_list
                /\ \A i \in 1..Len(event_list) :
                      Indices(rpc_log'.add_events, Key(event_list[i])) # {}
                /\ SumRepeats(rpc_log'.add_events, 1..Len(rpc_log'.add_events))
                      = SumRepeats(event_list, 1..Len(event_list))
                /\ event_list' \in {<< >>, <<AddEventsError>>}
                /\ event_list' = << >> <=> t_last_events' = now
          /\ ~EventsFlush =>
                /\ rpc_log'.batches = rpc_log.batches
                /\ rpc_log'.add_events = rpc_log.add_events]_vars
    /\ \A n \in 0..MaxTime :
          (rpc_log.batches = n /\ event_list # << >> /\ now < MaxTime)
              ~> (rpc_log.batches > n \/ ~action_on)

\* a flush raised; the next flush passed the ERROR event of that raise and
\* none of the events of the first one
C37_Witness ==
    /\ rpc_log.batches = 2
    /\ event_list = << >>
    /\ rpc_log.prev_events # << >>
    /\ Len(rpc_log.add_events) = 1
    /\ rpc_log.add_events[1].body = Traceback("add_events")
    /\ \A i \in 1..Len(rpc_log.prev_events) :
          Key(rpc_log.prev_events[i]) # Key(rpc_log.add_events[1])

\* the ping step in which the parent's ping RPC raised: action_loop has
\* buffered the traceback of the call
PingRaisedNow ==
    /\ PingStep
    /\ Len(hist'.appended) = Len(hist.appended) + 1
    /\ Last(hist'.appended).body = Traceback("ping")
\* the last ping call was made after _t_last_ping: it raised, and no flush
\* has completed since
LastPingRaised == rpc_log.ping # None /\ rpc_log.ping.timestamp > t_last_ping

\* C38: when the parent's ping RPC raises during a flush, _t_last_ping and
\* _num_ping_sent stay as they were and the swapped-out accumulator is gone
\* (the accumulator in use is a fresh one); the next tick of the reactor
\* flushes again, calling ping with what has been gathered since the raise,
\* and samples no idle or total point, whereas a flush that completed is
\* followed by ticks that sample until ping_timedelta has passed.
C38_PingRaiseRetries ==
    [][/\ PingRaisedNow =>
             /\ PingCalled
             /\ t_last_ping' = t_last_ping
             /\ num_ping_sent' = num_ping_sent
             /\ ping_data' = ping_template
             /\ ping_idle_points' = <<0, 0>>
             /\ rpc_log'.pings = rpc_log.pings
       /\ (PingStep /\ LastPingRaised) =>
             /\ PingCalled
             /\ ping_idle_points = <<0, 0>>
             /\ ping_idle_points' = <<0, 0>>
             /\ rpc_log'.ping.tasks_done = ping_data.tasks_done
             /\ rpc_log'.ping.tasks_done = Successes - hist.success_at_flush
             /\ rpc_log'.ping.percent_idle = Fraction(0, 1)
             /\ rpc_log'.ping.timedelta = now - t_last_ping
             /\ rpc_log'.ping.timedelta > ping_timedelta
       /\ (PingStep /\ ~LastPingRaised /\ rpc_log.ping # None
             /\ now - rpc_log.ping.timestamp < ping_timedelta) =>
             /\ ~PingCalled
             /\ ping_idle_points'[2] = ping_idle_points[2] + 1]_vars

\* a ping raised one tick after the period had passed; the tick after it
\* flushed again and that ping was delivered, a tick (not a period) later
C38_Witness ==
    /\ rpc_log.ping_calls = 2
    /\ rpc_log.pings = 1
    /\ num_ping_sent = 1
    /\ rpc_log.ping.timestamp = 2
    /\ rpc_log.ping.timedelta = ping_timedelta + 1
    /\ t_last_ping = 2

\* the message in hand decodes to a Task Record that has not expired and
\* names no task of the handler table
UnknownTaskInHand ==
    /\ Body # DecodeFailure
    /\ Body.rec.timelimit # None
    /\ ~IsExpired(Body.rec)
    /\ Body.rec.task \notin known_tasks

\* C39: a decoded task that has not expired and whose name is not in the
\* handler table invokes no handler: task_received adds its entry, the lookup
\* raises, task_ended(exc) removes the entry and buffers one ERROR event with
\* origin 'FlowControlReactor.task_ended', tasks_done is unchanged, the result
\* is 'error' and the loop goes on to the next pop.
C39_UnknownTaskName ==
    [][/\ (ProcessStep /\ UnknownTaskInHand) =>
             /\ pc' = "running"
             /\ ~HandlerInvoked
             /\ hist'.received = hist.received + 1
             /\ Main \in DOMAIN current_task_by_thread'
             /\ current_task_by_thread'[Main].taskname = Body.rec.task
             /\ current_task_by_thread'[Main].ts = now
       /\ (pc = "running" /\ pc' # "running" /\ TaskName \notin known_tasks) =>
             /\ pc' = "pop"
             /\ hist'.result[popped] = "error"
             /\ hist'.handler_calls[popped] = 0
             /\ hist'.ended = hist.ended + 1
             /\ Main \notin DOMAIN current_task_by_thread'
             /\ Len(event_list') = (IF Len(event_list) < max_keep_events
                                    THEN Len(event_list) + 1 ELSE max_keep_events)
             /\ Last(event_list').origin = "FlowControlReactor.task_ended"
             /\ Last(event_list').type = "ERROR"
             /\ Last(event_list').body = Traceback("KeyError")
             /\ Last(event_list').repeats = 1
             /\ ping_data' = ping_data
             /\ count' = count + 1
             /\ queue' = queue
             /\ exit_code' = exit_code]_vars

\* a message naming an unknown task ended as an error without a handler
\* call, and the next message is in its handler
C39_Witness ==
    /\ popped = 2
    /\ pc = "running"
    /\ hist.result[1] = "error"
    /\ hist.handler_calls = <<0, 1>>
    /\ hist.received = 2
    /\ hist.ended = 1
    /\ ping_data.tasks_done = 0
    /\ Len(event_list) = 1
    /\ event_list[1].body = Traceback("KeyError")

\* C40: once stop() has been called on the started reactor, no further tick
\* begins: the loop finishes the actions of the tick it is in, sleeps and
\* terminates (the RPC calls end and the thread is scheduled); from the end
\* of that tick on the reactor thread changes neither the running-task map
\* nor the ping accumulator nor the event buffer and calls the parent no
\* more.  The model's clock stops at MaxTime: a sleep that ends later is the
\* last one.
C40_StopEndsLoop ==
    /\ [][/\ (~action_on /\ r_pc = "sleep") => r_pc' \in {"sleep", "done"}
          /\ r_pc = "done" => r_pc' = "done"
          /\ (~action_on /\ r_pc \in {"sleep", "done"}) =>
                UNCHANGED <<current_task_by_thread, ping_data, ping_idle_points,
                            event_list, t_last_ping, num_ping_sent,
                            t_last_events, rpc_log>>
          /\ action_on' => action_on]_vars
    /\ ~action_on ~> (r_pc = "done" \/ (r_pc = "sleep" /\ wake_at > MaxTime))

\* the consumer was interrupted in a handler, stop() was called while the
\* reactor was running, and the loop has terminated
C40_Witness ==
    /\ ~action_on
    /\ r_pc = "done"
    /\ pc = "exited"
    /\ life_log.stops = 1
    /\ hist.result[popped] = "interrupted"

====
